---------------------------- MODULE Spec2Model ----------------------------
(***************************************************************************)
(* Model of the AI analysis orchestration layer of the writing assistant:  *)
(*   - AIService (services/ai.ts): the request throttler                   *)
(*     (rateLimitedRequest / processQueue), analyzeContent and             *)
(*     parseAnalysisResponse;                                              *)
(*   - ContentAnalyzer (the orchestrator with its cache) and               *)
(*     AnalysisProcessor (the heuristic analyzer).                         *)
(* The JavaScript event loop is single-threaded: every action below is one *)
(* run-to-completion segment (a call up to its first pending await, a      *)
(* timer callback, or the settling of a network request together with the  *)
(* promise continuations it releases).                                     *)
(***************************************************************************)
EXTENDS Integers, Sequences, FiniteSets, TLC

(***************************************************************************)
(* Bounds of the model.                                                    *)
(***************************************************************************)
\* orchestrator analyze calls made in one behaviour
MaxCalls == 2
\* other throttled requests (sendChatMessage / streamChatMessage)
MaxChats == 4
\* words of the longest text given to the heuristic analyzer
MaxWords == 32

(***************************************************************************)
(* Program constants.                                                      *)
(***************************************************************************)
\* AIService.requestInterval, ms
requestInterval == 1000
\* ContentAnalyzer.cacheTimeout = 5 * 60 * 1000 ms
cacheTimeout == 300000
\* period of the setInterval in ContentAnalyzer's constructor, ms
sweepInterval == 60000

\* JavaScript undefined
Undefined == [t |-> "undefined"]
\* a JavaScript number with an integer value
Num(n) == [t |-> "number", n |-> n]
\* a JavaScript string that is not a numeral
Str(s) == [t |-> "string", s |-> s]
\* a JavaScript array (its elements are not modelled here)
Arr == [t |-> "array"]

\* JavaScript truthiness: undefined, null, 0, NaN and "" are falsy
Truthy(v) ==
    CASE v.t = "undefined" -> FALSE
      [] v.t = "null"      -> FALSE
      [] v.t = "number"    -> v.n # 0
      [] v.t = "string"    -> v.s # ""
      [] v.t = "text"      -> Len(v.s) > 0
      [] v.t = "boolean"   -> v.b
      [] v.t = "nan"       -> FALSE
      [] OTHER             -> TRUE

\* JavaScript  a || b
JsOr(a, b) == IF Truthy(a) THEN a ELSE b

Max(a, b) == IF a >= b THEN a ELSE b
Min(a, b) == IF a <= b THEN a ELSE b

(***************************************************************************)
(* Content: a string is a sequence of UTF-16 code units.                   *)
(***************************************************************************)
\* the line feed of /\n\s*\n/
NL == 10
\* the characters \s matches that occur in the modelled contents
Whitespace == {32, NL, 9, 13}
\* the characters of /[.!?]+/
Terminators == {46, 33, 63}

\* content.trim() is the empty string
IsBlank(s) == \A i \in 1..Len(s) : s[i] \in Whitespace

\* The 32-bit hash of generateCacheKey is kept as two 16-bit halves, so that
\* no intermediate value leaves the integers TLC computes with.
\* One round of the loop:  hash = ((hash << 5) - hash) + char;  hash = hash & hash,
\* that is hash * 31 + char modulo 2^32.
HashStep(h, char) ==
    LET lo == h.lo * 31 + char
    IN  [hi |-> (h.hi * 31 + lo \div 65536) % 65536, lo |-> lo % 65536]

RECURSIVE HashFrom(_, _, _)
HashFrom(s, i, hash) ==
    IF i > Len(s) THEN hash ELSE HashFrom(s, i + 1, HashStep(hash, s[i]))

\* Math.abs of the signed 32-bit value whose two's-complement halves are h
AbsInt32(h) ==
    IF h.hi < 32768 THEN h
    ELSE [hi |-> 65535 - h.hi + (IF h.lo = 0 THEN 1 ELSE 0), lo |-> (65536 - h.lo) % 65536]

\* ContentAnalyzer.generateCacheKey: `analysis_${Math.abs(hash)}_${content.length}`
generateCacheKey(s) ==
    LET hash == AbsInt32(HashFrom(s, 1, [hi |-> 0, lo |-> 0]))
    IN  <<hash.hi, hash.lo, Len(s)>>

\* the positions at which a maximal run of characters outside `seps` starts
RunStarts(s, seps) ==
    {i \in 1..Len(s) : s[i] \notin seps /\ (i = 1 \/ s[i - 1] \in seps)}

\* content.trim().split(/\s+/).filter(word => word.length > 0).length
WordCount(s) == Cardinality(RunStarts(s, Whitespace))

\* the end of the run of characters outside `seps` that starts at i
RECURSIVE RunEnd(_, _, _)
RunEnd(s, seps, i) ==
    IF i < Len(s) /\ s[i + 1] \notin seps THEN RunEnd(s, seps, i + 1) ELSE i

\* content.split(/[.!?]+/).filter(s => s.trim().length > 0).length
SentenceCount(s) ==
    Cardinality({i \in RunStarts(s, Terminators) :
        \E j \in i..RunEnd(s, Terminators, i) : s[j] \notin Whitespace})

\* content.split(/\n\s*\n/).filter(p => p.trim().length > 0).length : a split
\* falls in every whitespace run between two words that holds two newlines
ParagraphCount(s) ==
    IF IsBlank(s) THEN 0
    ELSE 1 + Cardinality({i \in RunStarts(s, Whitespace) :
            /\ \E k \in 1..(i - 1) : s[k] \notin Whitespace
            /\ LET p == CHOOSE k \in 1..(i - 1) :
                        /\ s[k] \notin Whitespace
                        /\ \A l \in (k + 1)..(i - 1) : s[l] \in Whitespace
               IN  Cardinality({l \in (p + 1)..(i - 1) : s[l] = NL}) >= 2})

\* originalContent.split(/\s+/).length (no trim, no filter): one more than the
\* number of whitespace runs
SplitCount(s) ==
    1 + Cardinality({i \in 1..Len(s) :
            s[i] \in Whitespace /\ (i = 1 \/ s[i - 1] \notin Whitespace)})

(***************************************************************************)
(* AnalysisProcessor (the heuristic analyzer).                             *)
(***************************************************************************)
\* calculateBasicMetrics with penalties of 4 and without the final clamp
calculateBasicMetricsUnclamped(s) ==
    LET wordCount == WordCount(s)
        sentenceCount == SentenceCount(s)
        paragraphCount == ParagraphCount(s)
        AvgWordsOver(k) == sentenceCount > 0 /\ wordCount > k * sentenceCount
        AvgSentencesOver(k) == paragraphCount > 0 /\ sentenceCount > k * paragraphCount
    IN  [readabilityScore |->
            10 - (IF AvgWordsOver(20) THEN 4 ELSE 0)
               - (IF AvgWordsOver(25) THEN 4 ELSE 0)
               - (IF AvgWordsOver(30) THEN 4 ELSE 0),
         clarityScore |->
            8 - (IF AvgSentencesOver(5) THEN 1 ELSE 0)
              - (IF paragraphCount = 1 /\ sentenceCount > 10 THEN 1 ELSE 0)]

\* AnalysisProcessor.calculateBasicMetrics: the two scores.  The averages are
\* quotients; avg > k is compared as numerator > k * denominator.
calculateBasicMetrics(s) ==
    LET wordCount == WordCount(s)
        sentenceCount == SentenceCount(s)
        paragraphCount == ParagraphCount(s)
        \* avgWordsPerSentence > k  (the average is 0 when there is no sentence)
        AvgWordsOver(k) == sentenceCount > 0 /\ wordCount > k * sentenceCount
        AvgSentencesOver(k) == paragraphCount > 0 /\ sentenceCount > k * paragraphCount
        readabilityScore ==
            10 - (IF AvgWordsOver(20) THEN 2 ELSE 0)
               - (IF AvgWordsOver(25) THEN 2 ELSE 0)
               - (IF AvgWordsOver(30) THEN 2 ELSE 0)
        clarityScore ==
            8 - (IF AvgSentencesOver(5) THEN 1 ELSE 0)
              - (IF paragraphCount = 1 /\ sentenceCount > 10 THEN 1 ELSE 0)
    IN  [readabilityScore |-> Max(1, Min(10, readabilityScore)),
         clarityScore |-> Max(1, Min(10, clarityScore))]

\* AnalysisProcessor.createBasicAnalysis(content, postId) at time t
createBasicAnalysis(s, postId, t) ==
    LET metrics == calculateBasicMetrics(s)
    IN  [t |-> "analysis",
         origin |-> "heuristic",
         postId |-> postId,
         timestamp |-> t,
         readabilityScore |-> Num(metrics.readabilityScore),
         clarityScore |-> Num(metrics.clarityScore),
         suggestions |-> Arr,
         ambiguousPhrases |-> Arr]

(***************************************************************************)
(* AIService.parseAnalysisResponse (services/ai.ts).                       *)
(* A provider text is modelled by what JSON.parse makes of it: a syntax    *)
(* error, the value null, or an object with the four fields read here.     *)
(***************************************************************************)
\* Math.round(Math.min(10, Math.max(1, 10 - (avgWordsPerSentence - 15) / 3)))
\* with avgWordsPerSentence = wordCount / sentences.length || 0
EstimateReadability(s) ==
    LET wordCount == SplitCount(s)
        sentences == SentenceCount(s)
    IN  IF sentences = 0
        THEN 1      \* wordCount / 0 is Infinity: the estimate is clamped to 1
        ELSE \* 10 - (w/n - 15)/3 = (45n - w) / 3n, clamped, then rounded half up
             LET p == 45 * sentences - wordCount
                 q == 3 * sentences
             IN  IF p >= 10 * q THEN 10
                 ELSE IF p <= q THEN 1
                 ELSE (2 * p + q) \div (2 * q)

parseAnalysisResponse(text, s, t) ==
    IF text.t = "json" /\ text.v.t = "object"
    THEN [t |-> "analysis",
          origin |-> "provider",
          postId |-> "",
          timestamp |-> t,
          readabilityScore |-> JsOr(text.v.readabilityScore, Num(7)),
          clarityScore |-> JsOr(text.v.clarityScore, Num(7)),
          suggestions |-> JsOr(text.v.suggestions, Arr),
          ambiguousPhrases |-> JsOr(text.v.ambiguousPhrases, Arr)]
    ELSE \* JSON.parse threw, or a property of null was read: the catch block
         [t |-> "analysis",
          origin |-> "parseFallback",
          postId |-> "",
          timestamp |-> t,
          readabilityScore |-> Num(EstimateReadability(s)),
          clarityScore |-> Num(7),
          suggestions |-> Arr,
          ambiguousPhrases |-> Arr]

(***************************************************************************)
(* Inputs.                                                                 *)
(***************************************************************************)
\* The contents submitted for analysis: a whitespace-only text, and "Aa" and
\* "BB", two texts with the same cache key.
Contents == << <<32, NL>>, <<65, 97>>, <<66, 66>> >>
ContentIds == DOMAIN Contents

\* the cache key of each content
ContentKey == [i \in ContentIds |-> generateCacheKey(Contents[i])]

\* the postId argument of analyzeContent (optional) and the id of a post
PostIdArgs == {Undefined, Str("p1")}
PostIds == {"p1"}
ApiKeys == {"", "sk"}

\* What the provider's chat.completions.create settles to.
HttpError == [t |-> "error"]
NoChoices == [t |-> "response", choices |-> "missing"]
NoText == [t |-> "response", choices |-> "noText"]
Text(text) == [t |-> "response", choices |-> "text", text |-> text]
Garbage == [t |-> "garbage"]
Json(v) == [t |-> "json", v |-> v]
JsonNull == [t |-> "null"]
JsonObject(r, c, sg, ap) ==
    [t |-> "object", readabilityScore |-> r, clarityScore |-> c,
     suggestions |-> sg, ambiguousPhrases |-> ap]
ProviderOutcomes ==
    {HttpError, NoChoices, NoText,
     Text(Garbage),
     Text(Json(JsonNull)),
     Text(Json(JsonObject(Num(7), Num(8), Arr, Arr))),
     Text(Json(JsonObject(Num(15), Num(0), Undefined, Undefined)))}
\* a chat request either fails or answers
ChatOutcomes == {HttpError, Text(Garbage)}

(***************************************************************************)
(* State.                                                                  *)
(***************************************************************************)
VARIABLES
    now,                \* Date.now()
    apiKey,             \* AIService.config.apiKey
    client,             \* AIService.client is set
    rateLimitQueue,     \* AIService.rateLimitQueue: the ids of the queued requests
    isProcessingQueue,  \* AIService.isProcessingQueue
    lastRequestTime,    \* AIService.lastRequestTime
    loop,               \* where processQueue's drain loop is suspended
    tasks,              \* every request submitted to rateLimitedRequest, in order
    dispatchLog,        \* the requests started by the drain loop, with the time
    cache,              \* ContentAnalyzer.cache
    nextSweep,          \* when the constructor's interval timer is due next
    nCalls,             \* the orchestrator calls made so far
    lastReturn,         \* how the orchestrator call that finished last ended
    config,             \* the configurable AIService: its AIProviderConfig
    httpLog,            \* the configurable AIService: the fetch calls made
    pending,            \* the configurable AIService: the calls awaiting fetch
    outcome,            \* the configurable AIService: how the last call ended
    input,              \* the argument a function is applied to
    output              \* the value the function returned for it

vars == <<now, apiKey, client, rateLimitQueue, isProcessingQueue,
          lastRequestTime, loop, tasks, dispatchLog, cache, nextSweep,
          nCalls, lastReturn, config, httpLog, pending, outcome,
          input, output>>
\* the state of ContentAnalyzer and of the AIService it imports
coreVars == <<now, apiKey, client, rateLimitQueue, isProcessingQueue,
              lastRequestTime, loop, tasks, dispatchLog, cache, nextSweep,
              nCalls, lastReturn>>
\* the state of the configurable AIService
providerVars == <<config, httpLog, pending, outcome>>
\* a function's argument and result
pureVars == <<input, output>>
throttleVars == <<rateLimitQueue, isProcessingQueue, lastRequestTime, loop,
                  tasks, dispatchLog>>

None == [t |-> "none"]
Idle == [pc |-> "idle", due |-> 0, task |-> 0]

\* AIService.isConfigured
isConfigured == client /\ apiKey # ""

(***************************************************************************)
(* ContentAnalyzer's cache.                                                *)
(***************************************************************************)
\* isCacheValid with the age bound included
isCacheValidInclusive(analysis, t) == t - analysis.timestamp <= cacheTimeout

\* isCacheValid with its comparison turned round
isCacheValidReversed(analysis, t) == t - analysis.timestamp > cacheTimeout

\* ContentAnalyzer.isCacheValid at time t
isCacheValid(analysis, t) == t - analysis.timestamp < cacheTimeout

\* this.cache.get(cacheKey) followed by the validity test of the analyze calls:
\* the stored entry, or None
CacheGet(cch, key, t) ==
    IF key \in DOMAIN cch /\ isCacheValid(cch[key], t) THEN cch[key] ELSE None

\* CacheSet that keeps the entry a key already has
CacheSetIfAbsent(cch, key, analysis) ==
    [k \in DOMAIN cch \cup {key} |-> IF k \in DOMAIN cch THEN cch[k] ELSE analysis]

\* this.cache.set(cacheKey, analysisResult)
CacheSet(cch, key, analysis) ==
    [k \in DOMAIN cch \cup {key} |-> IF k = key THEN analysis ELSE cch[k]]

\* ContentAnalyzer.clearExpiredCache at time t
clearExpiredCache(cch, t) ==
    [k \in {x \in DOMAIN cch : ~(t - cch[x].timestamp > cacheTimeout)} |-> cch[k]]

(***************************************************************************)
(* AIService: the throttler.                                               *)
(***************************************************************************)
\* Shift taking the request queued last (pop for shift)
ShiftLast(q) == [request |-> q[Len(q)], rest |-> SubSeq(q, 1, Len(q) - 1)]

\* this.rateLimitQueue.shift()
Shift(q) == [request |-> Head(q), rest |-> Tail(q)]

\* lines 81-84: take the next request off the queue and start it
Dispatch(q) ==
    LET sh == Shift(q)
    IN  [queue |-> sh.rest, processing |-> TRUE,
         loop |-> [pc |-> "task", due |-> 0, task |-> sh.request],
         started |-> <<sh.request>>]

\* TimerDelay waiting the time that has passed, not the time that is left
TimerDelayElapsed(timeSinceLastRequest) == timeSinceLastRequest

\* the delay of the setTimeout of line 78
TimerDelay(timeSinceLastRequest) == requestInterval - timeSinceLastRequest

\* DrainLoop leaving without line 92, so that isProcessingQueue stays set
DrainLoopKeepsFlag(q, last, t) ==
    IF Len(q) > 0
    THEN LET timeSinceLastRequest == t - last
         IN  IF timeSinceLastRequest < requestInterval
             THEN [queue |-> q, processing |-> TRUE,
                   loop |-> [pc |-> "timer",
                             due |-> t + TimerDelay(timeSinceLastRequest),
                             task |-> 0],
                   started |-> <<>>]
             ELSE Dispatch(q)
    ELSE [queue |-> q, processing |-> TRUE, loop |-> Idle, started |-> <<>>]

\* DrainLoop leaving instead of waiting when the interval has not yet passed
DrainLoopLeavesEarly(q, last, t) ==
    IF Len(q) > 0 /\ t - last >= requestInterval
    THEN Dispatch(q)
    ELSE [queue |-> q, processing |-> FALSE, loop |-> Idle, started |-> <<>>]

\* processQueue's while loop, from its head (line 73) to its next await or to
\* its exit (line 92), at time t
DrainLoop(q, last, t) ==
    IF Len(q) > 0
    THEN LET timeSinceLastRequest == t - last
         IN  IF timeSinceLastRequest < requestInterval
             THEN [queue |-> q, processing |-> TRUE,
                   loop |-> [pc |-> "timer",
                             due |-> t + TimerDelay(timeSinceLastRequest),
                             task |-> 0],
                   started |-> <<>>]
             ELSE Dispatch(q)
    ELSE [queue |-> q, processing |-> FALSE, loop |-> Idle, started |-> <<>>]

\* processQueue without the isProcessingQueue test of line 67
processQueueNoGuard(q, t) ==
    IF Len(q) = 0
    THEN [queue |-> q, processing |-> isProcessingQueue, loop |-> loop,
          started |-> <<>>]
    ELSE DrainLoop(q, lastRequestTime, t)

\* processQueue, called with queue q at time t (lines 66-72, then the loop)
processQueue(q, t) ==
    IF isProcessingQueue \/ Len(q) = 0
    THEN [queue |-> q, processing |-> isProcessingQueue, loop |-> loop,
          started |-> <<>>]
    ELSE DrainLoop(q, lastRequestTime, t)

\* the tasks after the requests in `started` were started
Started(tks, started) ==
    [t \in DOMAIN tks |->
        IF \E k \in DOMAIN started : started[k] = t
        THEN [tks[t] EXCEPT !.state = "running"] ELSE tks[t]]

\* the throttler's variables take the values the drain loop left
SetThrottle(r, tks) ==
    /\ rateLimitQueue' = r.queue
    /\ isProcessingQueue' = r.processing
    /\ loop' = r.loop
    /\ tasks' = Started(tks, r.started)
    /\ dispatchLog' = dispatchLog \o
            [k \in DOMAIN r.started |-> [task |-> r.started[k], at |-> now]]

\* rateLimitedRequest (lines 51-64): queue the wrapped request of an awaiting
\* analyze call (frame; None for a chat request), then call processQueue
rateLimitedRequest(frame) ==
    LET t == Len(tasks) + 1
        tks == Append(tasks, [frame |-> frame, state |-> "queued",
                              promise |-> "pending", error |-> 0])
    IN  /\ SetThrottle(processQueue(Append(rateLimitQueue, t), now), tks)
        /\ UNCHANGED lastRequestTime

\* SettleRequest rejecting every pending promise with the error of task t
SettleRequestRejectsAll(tks, t, o) ==
    [k \in DOMAIN tks |->
        IF k = t
        THEN [frame |-> None, state |-> "settled",
              promise |-> IF o.t = "error" THEN "rejected" ELSE "resolved",
              error |-> IF o.t = "error" THEN t ELSE 0]
        ELSE IF o.t = "error" /\ tks[k].promise = "pending"
        THEN [tks[k] EXCEPT !.promise = "rejected", !.error = t]
        ELSE tks[k]]

\* the wrapper of lines 53-60: the request of task t settled with outcome o;
\* its caller's promise is resolved with the result, or rejected with the error
\* the request threw (error: the task whose request threw it)
SettleRequest(tks, t, o) ==
    [tks EXCEPT ![t] =
        [frame |-> None, state |-> "settled",
         promise |-> IF o.t = "error" THEN "rejected" ELSE "resolved",
         error |-> IF o.t = "error" THEN t ELSE 0]]

(***************************************************************************)
(* AIService.analyzeContent and the orchestrator's analyze calls.          *)
(***************************************************************************)
\* error: "config" for the configuration error of line 97, "empty" for the
\* validation error of line 101, "service" for any other error
Threw(error) == [threw |-> TRUE, error |-> error, success |-> FALSE, data |-> None]
Returned(data) == [threw |-> FALSE, error |-> "", success |-> TRUE, data |-> data]

\* AIService.analyzeContent from the settling of its throttled request with
\* outcome o (lines 105-145): what the call returns or throws
analyzeContentSettled(o, s, t) ==
    CASE o.t = "error" -> Threw("service")
      [] o.t = "response" /\ o.choices = "missing" -> Threw("service")
      [] o.t = "response" /\ o.choices = "noText" -> Threw("service")
      [] OTHER -> Returned(parseAnalysisResponse(o.text, s, t))

\* PostIdOf without the default: the argument as it is written into a string
PostIdOfNoDefault(arg) == IF arg.t = "string" THEN arg.s ELSE "undefined"

\* postId || ''
PostIdOf(arg) == IF Truthy(arg) THEN arg.s ELSE ""

\* AnalyzeResume without its catch block: a service error reaches the caller
AnalyzeResumeNoCatch(svc, s, postId, t, cch) ==
    IF ~svc.threw /\ svc.success /\ svc.data # None
    THEN LET analysisResult == [svc.data EXCEPT !.postId = postId, !.timestamp = t]
         IN  [threw |-> FALSE, path |-> "provider", error |-> "",
              result |-> analysisResult,
              cache |-> CacheSet(cch, generateCacheKey(s), analysisResult)]
    ELSE [threw |-> TRUE, path |-> "fallback",
          error |-> IF svc.threw THEN svc.error ELSE "service",
          result |-> None, cache |-> cch]

\* AnalyzeResume with a catch block that also stores the fallback result
AnalyzeResumeCachesFallback(svc, s, postId, t, cch) ==
    IF ~svc.threw /\ svc.success /\ svc.data # None
    THEN LET analysisResult == [svc.data EXCEPT !.postId = postId, !.timestamp = t]
         IN  [threw |-> FALSE, path |-> "provider", error |-> "",
              result |-> analysisResult,
              cache |-> CacheSet(cch, generateCacheKey(s), analysisResult)]
    ELSE LET basic == createBasicAnalysis(s, postId, t)
         IN  [threw |-> FALSE, path |-> "fallback",
              error |-> IF svc.threw THEN svc.error ELSE "service",
              result |-> basic,
              cache |-> CacheSet(cch, generateCacheKey(s), basic)]

\* AnalyzeResume with a catch block that rethrows a configuration error
AnalyzeResumeConfigPropagates(svc, s, postId, t, cch) ==
    IF ~svc.threw /\ svc.success /\ svc.data # None
    THEN LET analysisResult == [svc.data EXCEPT !.postId = postId, !.timestamp = t]
         IN  [threw |-> FALSE, path |-> "provider", error |-> "",
              result |-> analysisResult,
              cache |-> CacheSet(cch, generateCacheKey(s), analysisResult)]
    ELSE IF svc.threw /\ svc.error = "config"
    THEN [threw |-> TRUE, path |-> "fallback", error |-> "config",
          result |-> None, cache |-> cch]
    ELSE [threw |-> FALSE, path |-> "fallback",
          error |-> IF svc.threw THEN svc.error ELSE "service",
          result |-> createBasicAnalysis(s, postId, t),
          cache |-> cch]

\* ContentAnalyzer.analyzeContent / analyzePost from the settling of
\* aiService.analyzeContent with svc (lines 74-92 and 30-58), at time t with
\* cache cch: what the call returns or throws, and the cache it leaves
AnalyzeResume(svc, s, postId, t, cch) ==
    IF ~svc.threw /\ svc.success /\ svc.data # None
    THEN LET analysisResult == [svc.data EXCEPT !.postId = postId, !.timestamp = t]
         IN  [threw |-> FALSE, path |-> "provider", error |-> "",
              result |-> analysisResult,
              cache |-> CacheSet(cch, generateCacheKey(s), analysisResult)]
    ELSE [threw |-> FALSE, path |-> "fallback",
          error |-> IF svc.threw THEN svc.error ELSE "service",
          result |-> createBasicAnalysis(s, postId, t),
          cache |-> cch]

\* the record of the call of `frame` ending as out says
Return(frame, out) ==
    [t |-> "return", call |-> frame.call, content |-> frame.content,
     postId |-> frame.postId, path |-> out.path, error |-> out.error,
     threw |-> out.threw, result |-> out.result]

\* An orchestrator call with content Contents[i] (lines 61-74 and 15-30), up to
\* its return or its first pending await.
Analyze(i, postId) ==
    LET s == Contents[i]
        cacheKey == ContentKey[i]
        cached == CacheGet(cache, cacheKey, now)
        frame == [call |-> nCalls + 1, content |-> i, postId |-> postId]
    IN  /\ nCalls < MaxCalls
        /\ nCalls' = nCalls + 1
        /\ IF IsBlank(s)
           THEN \* throw new Error('Cannot analyze empty content')
                /\ lastReturn' = Return(frame,
                        [threw |-> TRUE, path |-> "rejected",
                         error |-> "empty", result |-> None])
                /\ UNCHANGED <<throttleVars, cache>>
           ELSE IF cached # None
           THEN \* return { ...cached, postId }
                /\ lastReturn' = Return(frame,
                        [threw |-> FALSE, path |-> "hit", error |-> "",
                         result |-> [cached EXCEPT !.postId = postId]])
                /\ UNCHANGED <<throttleVars, cache>>
           ELSE IF ~isConfigured
           THEN \* aiService.analyzeContent throws before it queues anything
                LET out == AnalyzeResume(Threw("config"),
                                         s, postId, now, cache)
                IN  /\ lastReturn' = Return(frame, out)
                    /\ cache' = out.cache
                    /\ UNCHANGED throttleVars
           ELSE \* aiService.analyzeContent queues its request and awaits it
                /\ rateLimitedRequest(frame)
                /\ UNCHANGED <<cache, lastReturn>>
        /\ UNCHANGED <<now, apiKey, client, nextSweep>>
    /\ UNCHANGED <<providerVars, pureVars>>

\* ContentAnalyzer.analyzeContent(content, postId?)
analyzeContent(i, postIdArg) == Analyze(i, PostIdOf(postIdArg))

\* ContentAnalyzer.analyzePost(post)
analyzePost(i, id) == Analyze(i, id)

\* AIService.sendChatMessage / streamChatMessage: another caller of the throttler
sendChatMessage ==
    /\ isConfigured
    /\ Cardinality({t \in DOMAIN tasks : tasks[t].frame = None}) < MaxChats
    /\ rateLimitedRequest(None)
    /\ UNCHANGED <<now, apiKey, client, cache, nextSweep, nCalls, lastReturn>>
    /\ UNCHANGED <<providerVars, pureVars>>

\* The timer of line 78 fires: the loop takes the next request and starts it.
TimerFire ==
    /\ loop.pc = "timer"
    /\ now >= loop.due
    /\ SetThrottle(Dispatch(rateLimitQueue), tasks)
    /\ UNCHANGED <<now, apiKey, client, lastRequestTime, cache, nextSweep,
                   nCalls, lastReturn>>
    /\ UNCHANGED <<providerVars, pureVars>>

\* RequestTime recording the time the request was started
RequestTimeAtStart(started, t) == started

\* line 88, reached once the await of line 84 is over: the time recorded for a
\* request started at `started` whose promise settled at t
RequestTime(started, t) == t

\* The request the loop awaits (line 84) settles with outcome o: the wrapper
\* settles the caller's promise, the loop records the time and goes round
\* (lines 88-92), and the awaiting analyze call, if any, runs to its end.
RequestSettles(o) ==
    /\ loop.pc = "task"
    /\ LET t == loop.task
           frame == tasks[t].frame
       IN  /\ o \in (IF frame = None THEN ChatOutcomes ELSE ProviderOutcomes)
           /\ lastRequestTime' = RequestTime(dispatchLog[Len(dispatchLog)].at, now)
           /\ SetThrottle(DrainLoop(rateLimitQueue, lastRequestTime', now),
                          SettleRequest(tasks, t, o))
           /\ IF frame = None
              THEN UNCHANGED <<cache, lastReturn>>
              ELSE LET s == Contents[frame.content]
                       out == AnalyzeResume(analyzeContentSettled(o, s, now),
                                            s, frame.postId, now, cache)
                   IN  /\ lastReturn' = Return(frame, out)
                       /\ cache' = out.cache
    /\ UNCHANGED <<now, apiKey, client, nextSweep, nCalls>>
    /\ UNCHANGED <<providerVars, pureVars>>

\* The clock advances while the request the loop awaits (line 84) is in
\* flight; a request takes up to a request interval.
RequestRuns ==
    /\ loop.pc = "task"
    /\ now - dispatchLog[Len(dispatchLog)].at < requestInterval
    /\ now' = now + (requestInterval \div 2)
    /\ UNCHANGED <<apiKey, client, throttleVars, cache, nextSweep, nCalls, lastReturn>>
    /\ UNCHANGED <<providerVars, pureVars>>

\* The interval timer of the constructor (lines 10-12) fires.
Sweep ==
    /\ now >= nextSweep
    /\ cache' = clearExpiredCache(cache, now)
    /\ nextSweep' = now + sweepInterval
    /\ UNCHANGED <<now, apiKey, client, throttleVars, nCalls, lastReturn>>
    /\ UNCHANGED <<providerVars, pureVars>>

\* AIService.setApiKey
setApiKey(k) ==
    /\ <<apiKey, client>> # <<k, TRUE>>
    /\ apiKey' = k
    /\ client' = TRUE
    /\ UNCHANGED <<now, throttleVars, cache, nextSweep, nCalls, lastReturn>>
    /\ UNCHANGED <<providerVars, pureVars>>

\* The clock advances.  The program reads the clock only through its distance
\* to a recorded time, so it advances by half a request interval while a
\* request interval is running or the loop's timer is pending, and by the
\* cache lifetime while the cache holds an entry not yet past its lifetime.
TickSteps ==
    (IF \/ now - lastRequestTime < requestInterval
        \/ (loop.pc = "timer" /\ now <= loop.due)
     THEN {requestInterval \div 2} ELSE {})
    \cup
    (IF \E k \in DOMAIN cache : now - cache[k].timestamp <= cacheTimeout
     THEN {cacheTimeout} ELSE {})
Tick(d) ==
    /\ d \in TickSteps
    /\ now' = now + d
    /\ UNCHANGED <<apiKey, client, throttleVars, cache, nextSweep, nCalls, lastReturn>>
    /\ UNCHANGED <<providerVars, pureVars>>

\* The state after construction.  The clock starts late enough for the first
\* request not to wait on the initial lastRequestTime of 0, as any real clock is.
CoreInit ==
    /\ now = requestInterval
    /\ apiKey \in ApiKeys
    /\ client = (apiKey # "")
    /\ rateLimitQueue = <<>>
    /\ isProcessingQueue = FALSE
    /\ lastRequestTime = 0
    /\ loop = Idle
    /\ tasks = <<>>
    /\ dispatchLog = <<>>
    /\ cache = <<>>
    /\ nextSweep = now + sweepInterval
    /\ nCalls = 0
    /\ lastReturn = None
\* no configurable AIService is in use
ProviderIdle == config = None /\ httpLog = <<>> /\ pending = {} /\ outcome = None
\* no function is being applied
PureIdle == input = None /\ output = None
Init == CoreInit /\ ProviderIdle /\ PureIdle

\* The orchestrator with its cache, the service and its throttler.
Next ==
    \/ \E i \in ContentIds, a \in PostIdArgs : analyzeContent(i, a)
    \/ \E i \in ContentIds, id \in PostIds : analyzePost(i, id)
    \/ TimerFire
    \/ \E o \in ProviderOutcomes : RequestSettles(o)
    \/ Sweep
    \/ \E k \in ApiKeys : setApiKey(k)
    \/ \E d \in {requestInterval \div 2, cacheTimeout} : Tick(d)

Spec == Init /\ [][Next]_vars

\* The throttler on its own, under requests of callers that do not go through
\* the orchestrator.
InitThrottle == Init /\ isConfigured

NextThrottle ==
    \/ sendChatMessage
    \/ TimerFire
    \/ \E o \in ChatOutcomes : RequestSettles(o)
    \/ RequestRuns
    \/ \E d \in {requestInterval \div 2} : Tick(d)

SpecThrottle == InitThrottle /\ [][NextThrottle]_vars

\* Timers fire, the clock advances and every started request settles.
SpecThrottleFair ==
    /\ SpecThrottle
    /\ WF_vars(TimerFire)
    /\ WF_vars(\E o \in ChatOutcomes : RequestSettles(o))
    /\ WF_vars(\E d \in {requestInterval \div 2} : Tick(d))


(***************************************************************************)
(* JSON text.  A text is a sequence of code units; JSON.parse is modelled  *)
(* for objects, arrays, strings with the escapes \" and \\, integers and   *)
(* the literals true, false and null.                                      *)
(***************************************************************************)
LBrace == 123
RBrace == 125
LBracket == 91
RBracket == 93
Quote == 34
Colon == 58
Comma == 44
Backslash == 92
Minus == 45
Backtick == 96
Digits == 48..57
\* the characters a . of a regular expression does not match
LineTerminators == {NL, 13}

\* a JavaScript string given by its code units
Chars(s) == [t |-> "text", s |-> s]
JsNull == [t |-> "null"]
Bool(b) == [t |-> "boolean", b |-> b]
NaN == [t |-> "nan"]
\* a parsed JSON array and a parsed JSON object (members in the order read)
Array(items) == [t |-> "array", items |-> items]
Object(members) == [t |-> "object", members |-> members]

\* obj.key : the value of the last member named key, or undefined; reading a
\* property of a value that is no object gives undefined
Get(obj, key) ==
    IF obj.t # "object" THEN Undefined
    ELSE LET hits == {k \in DOMAIN obj.members : obj.members[k].k = key}
         IN  IF hits = {} THEN Undefined
             ELSE obj.members[CHOOSE k \in hits : \A l \in hits : l <= k].v

\* s.trim()
RECURSIVE TrimLeft(_)
TrimLeft(s) ==
    IF s # <<>> /\ Head(s) \in Whitespace THEN TrimLeft(Tail(s)) ELSE s
RECURSIVE TrimRight(_)
TrimRight(s) ==
    IF s # <<>> /\ s[Len(s)] \in Whitespace
    THEN TrimRight(SubSeq(s, 1, Len(s) - 1)) ELSE s
Trim(s) == TrimRight(TrimLeft(s))

\* the number of occurrences of character c in s
Count(s, c) == Cardinality({i \in DOMAIN s : s[i] = c})
\* s.lastIndexOf(c), counted from 1; 0 when c does not occur
LastIndexOf(s, c) ==
    IF Count(s, c) = 0 THEN 0
    ELSE CHOOSE i \in DOMAIN s : s[i] = c /\ \A j \in DOMAIN s : s[j] = c => j <= i
\* s.indexOf(c), counted from 1; 0 when c does not occur
IndexOf(s, c) ==
    IF Count(s, c) = 0 THEN 0
    ELSE CHOOSE i \in DOMAIN s : s[i] = c /\ \A j \in DOMAIN s : s[j] = c => j >= i
\* s.startsWith(p)
StartsWith(s, p) == Len(s) >= Len(p) /\ SubSeq(s, 1, Len(p)) = p

\* the one element of a set {e : x \in {d}}: the value of e for x the value
\* of d, the way an intermediate result is computed once and then used
Value(singleton) == CHOOSE v \in singleton : TRUE

\* the result of a parsing step: a value and the position after it, or failure
ParseFail == [ok |-> FALSE, v |-> Undefined, i |-> 0]
ParseOk(v, i) == [ok |-> TRUE, v |-> v, i |-> i]

\* the first position from i on that holds no white space
RECURSIVE SkipWs(_, _)
SkipWs(s, i) ==
    IF i <= Len(s) /\ s[i] \in Whitespace THEN SkipWs(s, i + 1) ELSE i

\* a string literal whose opening quote is before position i; acc holds the
\* characters read so far
RECURSIVE ParseString(_, _, _)
ParseString(s, i, acc) ==
    IF i > Len(s) THEN ParseFail
    ELSE IF s[i] = Quote THEN ParseOk(Chars(acc), i + 1)
    ELSE IF s[i] = Backslash
    THEN IF i + 1 <= Len(s) /\ s[i + 1] \in {Quote, Backslash}
         THEN ParseString(s, i + 2, Append(acc, s[i + 1]))
         ELSE ParseFail
    ELSE IF s[i] < 32 THEN ParseFail
    ELSE ParseString(s, i + 1, Append(acc, s[i]))

\* the digits of an integer from position i on; n is the value read so far
RECURSIVE ParseDigits(_, _, _)
ParseDigits(s, i, n) ==
    IF i <= Len(s) /\ s[i] \in Digits
    THEN ParseDigits(s, i + 1, 10 * n + (s[i] - 48))
    ELSE ParseOk(Num(n), i)
\* an integer: -? (0 | [1-9][0-9]*)
ParseNumber(s, i) ==
    LET neg == s[i] = Minus
        j == IF neg THEN i + 1 ELSE i
    IN  IF j > Len(s) \/ s[j] \notin Digits THEN ParseFail
        ELSE LET r == IF s[j] = 48 THEN ParseOk(Num(0), j + 1)
                      ELSE ParseDigits(s, j, 0)
             IN  IF r.i <= Len(s) /\ s[r.i] \in Digits THEN ParseFail
                 ELSE IF neg THEN ParseOk(Num(0 - r.v.n), r.i) ELSE r
\* the literal `word` with value v at position i
ParseLiteral(s, i, word, v) ==
    IF i + Len(word) - 1 <= Len(s) /\ SubSeq(s, i, i + Len(word) - 1) = word
    THEN ParseOk(v, i + Len(word)) ELSE ParseFail

RECURSIVE ParseValue(_, _)
RECURSIVE ParseItems(_, _, _)
RECURSIVE ParseMembers(_, _, _)
RECURSIVE ItemsAfter(_, _, _)
RECURSIVE MembersAfter(_, _, _, _)
\* the items of an array after its [ or after a comma; acc holds the items read
ParseItems(s, i, acc) == Value({ItemsAfter(s, r, acc) : r \in {ParseValue(s, i)}})
\* the rest of an array after the item that parsed to r
ItemsAfter(s, r, acc) ==
    LET j == SkipWs(s, r.i)
    IN  IF ~r.ok \/ j > Len(s) THEN ParseFail
        ELSE IF s[j] = RBracket THEN ParseOk(Array(Append(acc, r.v)), j + 1)
        ELSE IF s[j] = Comma THEN ParseItems(s, j + 1, Append(acc, r.v))
        ELSE ParseFail
\* the members of an object after its { or after a comma
ParseMembers(s, i, acc) ==
    LET k == SkipWs(s, i)
    IN  IF k > Len(s) \/ s[k] # Quote THEN ParseFail
        ELSE Value({
            LET c == SkipWs(s, key.i)
            IN  IF ~key.ok \/ c > Len(s) \/ s[c] # Colon THEN ParseFail
                ELSE Value({MembersAfter(s, key.v.s, r, acc) :
                               r \in {ParseValue(s, c + 1)}})
            : key \in {ParseString(s, k + 1, <<>>)}})
\* the rest of an object after the member named key whose value parsed to r
MembersAfter(s, key, r, acc) ==
    LET j == SkipWs(s, r.i)
        m == Append(acc, [k |-> key, v |-> r.v])
    IN  IF ~r.ok \/ j > Len(s) THEN ParseFail
        ELSE IF s[j] = RBrace THEN ParseOk(Object(m), j + 1)
        ELSE IF s[j] = Comma THEN ParseMembers(s, j + 1, m)
        ELSE ParseFail
\* a JSON value from position i on, after white space
ParseValue(s, i) ==
    LET j == SkipWs(s, i)
    IN  IF j > Len(s) THEN ParseFail
        ELSE IF s[j] = LBrace
        THEN LET k == SkipWs(s, j + 1)
             IN  IF k <= Len(s) /\ s[k] = RBrace THEN ParseOk(Object(<<>>), k + 1)
                 ELSE ParseMembers(s, j + 1, <<>>)
        ELSE IF s[j] = LBracket
        THEN LET k == SkipWs(s, j + 1)
             IN  IF k <= Len(s) /\ s[k] = RBracket THEN ParseOk(Array(<<>>), k + 1)
                 ELSE ParseItems(s, j + 1, <<>>)
        ELSE IF s[j] = Quote THEN ParseString(s, j + 1, <<>>)
        ELSE IF s[j] = Minus \/ s[j] \in Digits THEN ParseNumber(s, j)
        ELSE IF s[j] = 116 THEN ParseLiteral(s, j, <<116, 114, 117, 101>>, Bool(TRUE))
        ELSE IF s[j] = 102 THEN ParseLiteral(s, j, <<102, 97, 108, 115, 101>>, Bool(FALSE))
        ELSE IF s[j] = 110 THEN ParseLiteral(s, j, <<110, 117, 108, 108>>, JsNull)
        ELSE ParseFail

\* one value with nothing but white space after it
ParseDocument(s) ==
    Value({IF r.ok /\ SkipWs(s, r.i) > Len(s)
           THEN [ok |-> TRUE, v |-> r.v] ELSE [ok |-> FALSE, v |-> Undefined]
           : r \in {ParseValue(s, 1)}})
\* JSON.parse(text): [ok |-> TRUE, v |-> the value], or ok = FALSE when it throws
JSONParse(text) == Value({ParseDocument(s) : s \in {text}})

(***************************************************************************)
(* AIService.attemptJSONRepair of the configurable service.                *)
(***************************************************************************)
\* the positions of the quotes of s, and the last three of them
QuotePositions(s) == {i \in DOMAIN s : s[i] = Quote}
LastBelow(P, n) == CHOOSE i \in P : i < n /\ \A j \in P : j < n => j <= i

\* text.match(/(.*?)"[^"]*"\s*:\s*"[^"]*$/): the pattern needs the last three
\* quotes of the text with only white space and one colon between the last
\* two; group 1 then runs from the start of the line of the first of the
\* three (a . matches no line terminator) up to that quote.
\* The result is [matched, group1].
IncompleteStringMatch(s) ==
    LET Q == QuotePositions(s)
    IN  IF Cardinality(Q) < 3 THEN [matched |-> FALSE, group1 |-> <<>>]
        ELSE LET q3 == LastBelow(Q, Len(s) + 1)
                 q2 == LastBelow(Q, q3)
                 q1 == LastBelow(Q, q2)
                 between == SubSeq(s, q2 + 1, q3 - 1)
                 breaks == {i \in 1..(q1 - 1) : s[i] \in LineTerminators}
                 p == IF breaks = {} THEN 1
                      ELSE 1 + CHOOSE i \in breaks : \A j \in breaks : j <= i
             IN  IF Count(between, Colon) = 1
                    /\ \A i \in DOMAIN between : between[i] \in Whitespace \cup {Colon}
                 THEN [matched |-> TRUE, group1 |-> SubSeq(s, p, q1 - 1)]
                 ELSE [matched |-> FALSE, group1 |-> <<>>]

\* text.replace(/,\s*$/, ''): drops a comma that only white space follows
DropTrailingComma(s) ==
    LET t == TrimRight(s)
    IN  IF t # <<>> /\ t[Len(t)] = Comma THEN SubSeq(t, 1, Len(t) - 1) ELSE s

\* text.match(/^\s*"[^"]+"\s*:\s*[^,}\]]+[}\]]/): a quoted non-empty name, a
\* colon, and at least one character before the first of , } ] which has
\* to be a closing brace or bracket
CompleteMemberMatch(s) ==
    LET a == SkipWs(s, 1)
    IN  /\ a <= Len(s) /\ s[a] = Quote
        /\ \E b \in (a + 2)..Len(s) :
              /\ s[b] = Quote
              /\ \A i \in (a + 1)..(b - 1) : s[i] # Quote
              /\ LET c == SkipWs(s, b + 1)
                 IN  /\ c <= Len(s) /\ s[c] = Colon
                     /\ \E e \in (c + 2)..Len(s) :
                           /\ s[e] \in {RBrace, RBracket}
                           /\ \A i \in (c + 1)..(e - 1) :
                                 s[i] \notin {Comma, RBrace, RBracket}

\* Strategy 2 (lines 277-289): cut at the last comma when it comes after the
\* last opening brace and bracket and what follows it is no complete member
DropAfterLastComma(s) ==
    LET lastCommaIndex == LastIndexOf(s, Comma)
        afterComma == Trim(SubSeq(s, lastCommaIndex + 1, Len(s)))
    IN  IF /\ lastCommaIndex > Max(LastIndexOf(s, LBrace), LastIndexOf(s, LBracket))
           /\ afterComma # <<>>
           /\ ~CompleteMemberMatch(afterComma)
        THEN SubSeq(s, 1, lastCommaIndex - 1)
        ELSE s

\* Strategy 3 (lines 292-296): close an unclosed quote
CloseQuote(s) == IF Count(s, Quote) % 2 # 0 THEN Append(s, Quote) ELSE s

\* n copies of character c
Repeat(c, n) == [i \in 1..n |-> c]

\* Strategy 1 (lines 269-273): the text before an incomplete string value
DropIncompleteString(s) ==
    Value({IF m.matched THEN DropTrailingComma(m.group1) ELSE s :
              m \in {IncompleteStringMatch(s)}})

\* lines 252-326 for the trimmed text
RepairTrimmed(trimmed) ==
    LET openBraces == Count(trimmed, LBrace)
        closeBraces == Count(trimmed, RBrace)
        openBrackets == Count(trimmed, LBracket)
        closeBrackets == Count(trimmed, RBracket)
    IN  IF openBraces > closeBraces \/ openBrackets > closeBrackets
        THEN Value({IF JSONParse(repairedJSON).ok THEN Chars(repairedJSON) ELSE JsNull :
                 repairedJSON \in {
                     Value({CloseQuote(Value({DropAfterLastComma(s1) : s1 \in {s0}})) :
                               s0 \in {DropIncompleteString(trimmed)}})
                         \o Repeat(RBracket, Max(0, openBrackets - closeBrackets))
                         \o Repeat(RBrace, Max(0, openBraces - closeBraces))}})
        ELSE JsNull
\* attemptJSONRepair(jsonString): the repaired text, or null
attemptJSONRepair(jsonString) ==
    Value({RepairTrimmed(trimmed) : trimmed \in {Trim(jsonString)}})

\* parseAnalysisResponse, lines 364-400: the direct parse of the cleaned
\* text and, when it throws, the parse of the repaired text.  path tells
\* which parse gave the value; "none" when line 394 or 398 throws.
parseRepaired(fixedJSON) ==
    IF ~Truthy(fixedJSON) THEN [path |-> "none", v |-> Undefined]
    ELSE Value({IF again.ok THEN [path |-> "repaired", v |-> again.v]
                ELSE [path |-> "none", v |-> Undefined] :
                   again \in {JSONParse(fixedJSON.s)}})
parseAnalysisData(cleanContent) ==
    Value({IF direct.ok THEN [path |-> "direct", v |-> direct.v]
           ELSE Value({parseRepaired(fixedJSON) :
                          fixedJSON \in {attemptJSONRepair(cleanContent)}}) :
              direct \in {JSONParse(cleanContent)}})

(***************************************************************************)
(* AIService.parseAnalysisResponse of the configurable service.            *)
(***************************************************************************)
\* the property names the parser reads
K_metrics == <<109, 101, 116, 114, 105, 99, 115>>
K_readabilityScore == <<114, 101, 97, 100, 97, 98, 105, 108, 105, 116, 121, 83, 99, 111, 114, 101>>
K_clarityScore == <<99, 108, 97, 114, 105, 116, 121, 83, 99, 111, 114, 101>>
K_suggestions == <<115, 117, 103, 103, 101, 115, 116, 105, 111, 110, 115>>
K_ambiguousPhrases == <<97, 109, 98, 105, 103, 117, 111, 117, 115, 80, 104, 114, 97, 115, 101, 115>>
K_position == <<112, 111, 115, 105, 116, 105, 111, 110>>
K_start == <<115, 116, 97, 114, 116>>
K_end == <<101, 110, 100>>
K_type == <<116, 121, 112, 101>>
K_severity == <<115, 101, 118, 101, 114, 105, 116, 121>>
K_error == <<101, 114, 114, 111, 114>>
K_message == <<109, 101, 115, 115, 97, 103, 101>>
\* the suggestion types and severities of part_000 lines 32-33
T_clarity == <<99, 108, 97, 114, 105, 116, 121>>
T_tone == <<116, 111, 110, 101>>
T_structure == <<115, 116, 114, 117, 99, 116, 117, 114, 101>>
T_grammar == <<103, 114, 97, 109, 109, 97, 114>>
T_low == <<108, 111, 119>>
T_medium == <<109, 101, 100, 105, 117, 109>>
T_high == <<104, 105, 103, 104>>
SuggestionTypes == {T_clarity, T_tone, T_structure, T_grammar}
SuggestionSeverities == {T_low, T_medium, T_high}

\* the number a string of decimal digits writes
RECURSIVE DigitsValue(_)
DigitsValue(s) ==
    IF s = <<>> THEN 0 ELSE 10 * DigitsValue(SubSeq(s, 1, Len(s) - 1)) + (s[Len(s)] - 48)
\* Number(v) for the values that occur as positions and scores: numbers,
\* booleans and null convert, a string converts when it is empty or all
\* decimal digits, every other value here gives NaN
ToNumber(v) ==
    CASE v.t = "number"  -> v
      [] v.t = "boolean" -> IF v.b THEN Num(1) ELSE Num(0)
      [] v.t = "null"    -> Num(0)
      [] v.t = "text" /\ \A i \in DOMAIN v.s : v.s[i] \in 48..57 -> Num(DigitsValue(v.s))
      [] OTHER           -> NaN
\* Math.max(a, b) and Math.min(a, b): NaN when an argument converts to NaN
MathMax(a, b) ==
    IF ToNumber(a).t = "nan" \/ ToNumber(b).t = "nan" THEN NaN
    ELSE Num(Max(ToNumber(a).n, ToNumber(b).n))
MathMin(a, b) ==
    IF ToNumber(a).t = "nan" \/ ToNumber(b).t = "nan" THEN NaN
    ELSE Num(Min(ToNumber(a).n, ToNumber(b).n))

\* What fetch and response.json() settle to: the request fails or the body
\* is no JSON; a response with a status outside 200-299; a body without a
\* choices array, with an empty one, or with choices[0].message.content
FetchFailed == [t |-> "failed"]
HttpStatus(status) == [t |-> "status", status |-> status, body |-> <<>>]
\* a response with a status and the text of its body
HttpResponse(status, body) == [t |-> "status", status |-> status, body |-> body]
BodyNoChoices == [t |-> "body", choices |-> "missing", content |-> Undefined]
BodyEmptyChoices == [t |-> "body", choices |-> "empty", content |-> Undefined]
\* choices[0] without a message
BodyNoMessage == [t |-> "body", choices |-> "noMessage", content |-> Undefined]

\* the message of an error: a fixed text, the text put before it when the
\* error was wrapped, and text taken over from a response
Message(text) == [prefix |-> "", text |-> text, quoted |-> <<>>]
\* prefix + error.message
Prefixed(prefix, message) == [message EXCEPT !.prefix = prefix \o @]
\* a thrown error of class `name` with its message and code
ErrorOf(name, message, code) ==
    [threw |-> TRUE, error |-> name, success |-> FALSE, data |-> None,
     message |-> message, code |-> code]
\* new AIServiceError(message, code)
AIServiceError(message, code) == ErrorOf("AIServiceError", message, code)
\* new Error(message), and the TypeError of the engine
JsError(text) == ErrorOf("Error", Message(text), Undefined)
TypeError == ErrorOf("TypeError", Message("TypeError"), Undefined)
Body(content) == [t |-> "body", choices |-> "content", content |-> content]

\* extractTextFromResponse(response): response.choices[0]?.message?.content || ''
\* with a TypeError when response.choices is undefined
extractTextFromResponse(response) ==
    IF response.choices = "missing"
    THEN AIServiceError(Message("Invalid response format from AI provider"), Undefined)
    ELSE Returned(JsOr(response.content, Chars(<<>>)))

\* lines 350-354: a leading ```json or ``` with the white space after it and
\* a trailing ``` with the white space before it are removed
Fence == <<Backtick, Backtick, Backtick>>
FenceJson == Fence \o <<106, 115, 111, 110>>
EndsWith(s, p) == Len(s) >= Len(p) /\ SubSeq(s, Len(s) - Len(p) + 1, Len(s)) = p
DropFenceEnd(s) ==
    IF EndsWith(s, Fence) THEN TrimRight(SubSeq(s, 1, Len(s) - Len(Fence))) ELSE s
DropFences(s) ==
    IF StartsWith(s, FenceJson)
    THEN DropFenceEnd(TrimLeft(SubSeq(s, Len(FenceJson) + 1, Len(s))))
    ELSE IF StartsWith(s, Fence)
    THEN DropFenceEnd(TrimLeft(SubSeq(s, Len(Fence) + 1, Len(s))))
    ELSE s

\* lines 357-360: cleanContent.match(/\{[\s\S]*\}/) keeps the text from the
\* first { to the last } after it
JsonMatch(s) ==
    IF IndexOf(s, LBrace) > 0 /\ LastIndexOf(s, RBrace) > IndexOf(s, LBrace)
    THEN SubSeq(s, IndexOf(s, LBrace), LastIndexOf(s, RBrace))
    ELSE s

\* x.position?.start and x.position?.end
PositionField(x, field) ==
    IF Get(x, K_position).t \notin {"undefined", "null"} THEN Get(Get(x, K_position), field) ELSE Undefined
\* lines 417-420 and 426-429: the position of a suggestion or phrase
PositionOf(x, length) ==
    [start |-> MathMax(Num(0), JsOr(PositionField(x, K_start), Num(0))),
     end |-> MathMin(Num(length), JsOr(PositionField(x, K_end), Num(0)))]

\* lines 412-413: s.type || 'clarity' and s.severity || 'low'
SuggestionField(s, key, default) == JsOr(Get(s, key), Chars(default))

\* lines 439-440: Math.max(1, Math.min(10, score || 5))
ScoreOf(score) == MathMax(Num(1), MathMin(Num(10), JsOr(score, Num(5))))

\* lines 403-405: analysisData.metrics is truthy and suggestions is an array
ValidStructure(analysisData) ==
    /\ Truthy(Get(analysisData, K_metrics))
    /\ Get(analysisData, K_suggestions).t = "array"

\* parseAnalysisResponse from line 402 on, for the outcome of lines 364-400
buildAnalysisResult(parsed, length, postId, t) ==
    LET analysisData == parsed.v
        phrases == JsOr(Get(analysisData, K_ambiguousPhrases), Array(<<>>))
    IN  IF parsed.path = "none" THEN JsError("Invalid JSON response from AI provider")
        \* a property of null is read, or the structure is invalid
        ELSE IF analysisData.t = "null" THEN TypeError
        ELSE IF ~ValidStructure(analysisData) THEN JsError("Invalid analysis response structure")
        \* .map of a value that is no array, or a property of a null item
        ELSE IF phrases.t # "array" THEN TypeError
        ELSE IF \E k \in DOMAIN Get(analysisData, K_suggestions).items :
                    Get(analysisData, K_suggestions).items[k].t = "null"
        THEN TypeError
        ELSE IF \E k \in DOMAIN phrases.items : phrases.items[k].t = "null"
        THEN TypeError
        ELSE Returned(
            [t |-> "analysis",
             origin |-> parsed.path,
             postId |-> postId,
             timestamp |-> t,
             readabilityScore |->
                 ScoreOf(Get(Get(analysisData, K_metrics), K_readabilityScore)),
             clarityScore |->
                 ScoreOf(Get(Get(analysisData, K_metrics), K_clarityScore)),
             suggestions |->
                 [k \in DOMAIN Get(analysisData, K_suggestions).items |->
                     [type |-> SuggestionField(
                         Get(analysisData, K_suggestions).items[k], K_type, T_clarity),
                      severity |-> SuggestionField(
                         Get(analysisData, K_suggestions).items[k], K_severity, T_low),
                      position |-> PositionOf(
                         Get(analysisData, K_suggestions).items[k], length)]],
             ambiguousPhrases |->
                 [k \in DOMAIN phrases.items |->
                     [position |-> PositionOf(phrases.items[k], length)]]])

\* the try block of parseAnalysisResponse (lines 334-446): the result, or the
\* error thrown inside
parseAnalysisResponseTry(response, originalContent, postId, t) ==
    LET content == extractTextFromResponse(response)
    IN  IF content.threw THEN content
        \* line 342, !content
        ELSE IF ~Truthy(content.data) THEN JsError("Empty response content from AI provider")
        \* content.substring and content.trim are no functions
        ELSE IF content.data.t # "text" THEN TypeError
        ELSE IF Trim(content.data.s) = <<>>
        THEN JsError("Empty response content from AI provider")
        ELSE Value({buildAnalysisResult(parsed, Len(originalContent), postId, t) :
                parsed \in {Value({parseAnalysisData(cleanContent) :
                    cleanContent \in {JsonMatch(DropFences(Trim(content.data.s)))}})}})

\* the catch block of lines 447-466: one AIServiceError without a code, its
\* message the caught message after a fixed prefix
WrapParseError(error) ==
    AIServiceError(Prefixed("Failed to parse analysis results: ", error.message), Undefined)

\* parseAnalysisResponse(response, originalContent, postId) at time t
AIService_parseAnalysisResponse(response, originalContent, postId, t) ==
    Value({IF result.threw THEN WrapParseError(result) ELSE result :
              result \in {parseAnalysisResponseTry(response, originalContent, postId, t)}})

(***************************************************************************)
(* The configurable AIService: updateConfig, analyzeContent and            *)
(* testConnection, with the fetch of makeAPICall settling later.           *)
(***************************************************************************)
MaxProviderCalls == 2

\* the texts the provider may write, after the structure the prompt asks for
Quoted(s) == <<Quote>> \o s \o <<Quote>>
Member(key, valueText) == Quoted(key) \o <<Colon>> \o valueText
RECURSIVE Join(_)
Join(parts) ==
    IF parts = <<>> THEN <<>>
    ELSE IF Len(parts) = 1 THEN parts[1]
    ELSE parts[1] \o <<Comma>> \o Join(Tail(parts))
ObjectText(members) == <<LBrace>> \o Join(members) \o <<RBrace>>
ArrayText(items) == <<LBracket>> \o Join(items) \o <<RBracket>>
RECURSIVE DigitsOf(_)
DigitsOf(n) == IF n < 10 THEN <<48 + n>> ELSE DigitsOf(n \div 10) \o <<48 + (n % 10)>>
NumberText(n) == IF n < 0 THEN <<Minus>> \o DigitsOf(0 - n) ELSE DigitsOf(n)
NullText == <<110, 117, 108, 108>>
DropLast(text, n) == SubSeq(text, 1, Len(text) - n)

MetricsText(r, c) ==
    ObjectText(<<Member(K_readabilityScore, NumberText(r)),
                 Member(K_clarityScore, NumberText(c))>>)
\* a suggestion or phrase with position {start, end}
ItemText(start, end) ==
    ObjectText(<<Member(K_position,
        ObjectText(<<Member(K_start, NumberText(start)),
                     Member(K_end, NumberText(end))>>))>>)
\* metrics whose scores are written as the given JSON texts
ScoresText(readability, clarity) ==
    ObjectText(<<Member(K_readabilityScore, readability), Member(K_clarityScore, clarity)>>)
\* a suggestion whose type and severity are written as the given JSON texts
TypedItemText(type, severity) ==
    ObjectText(<<Member(K_type, type), Member(K_severity, severity)>>)
AnalysisText(metricsText, suggestionsText, phrases) ==
    ObjectText(<<Member(K_metrics, metricsText),
                 Member(K_suggestions, suggestionsText),
                 Member(K_ambiguousPhrases, ArrayText(phrases))>>)
CompleteText ==
    AnalysisText(MetricsText(7, 12), ArrayText(<<ItemText(0, 1)>>), <<ItemText(1, 2)>>)

ResponseTexts ==
    { CompleteText,
      \* the same between ```json and ```
      FenceJson \o <<NL>> \o CompleteText \o <<NL>> \o Fence,
      \* cut inside the position of its ambiguous phrase: ..."position":{"st
      DropLast(CompleteText, 18),
      \* cut after "metrics":
      SubSeq(CompleteText, 1, 11),
      \* start after end, start beyond the content, negative end
      AnalysisText(MetricsText(7, 8), ArrayText(<<ItemText(5, 2)>>), <<>>),
      AnalysisText(MetricsText(7, 8), ArrayText(<<ItemText(50, 60)>>), <<>>),
      AnalysisText(MetricsText(7, 8), ArrayText(<<>>), <<ItemText(0, -3)>>),
      \* metrics absent, null, a number; suggestions absent, an object
      ObjectText(<<Member(K_suggestions, ArrayText(<<>>))>>),
      AnalysisText(NullText, ArrayText(<<>>), <<>>),
      AnalysisText(NumberText(5), ArrayText(<<>>), <<>>),
      ObjectText(<<Member(K_metrics, MetricsText(7, 8))>>),
      AnalysisText(MetricsText(7, 8), ObjectText(<<>>), <<>>),
      \* scores 0 and -3; the types "tone" and "style", the severities "high"
      \* and "urgent"
      AnalysisText(MetricsText(0, -3),
          ArrayText(<<TypedItemText(Quoted(T_tone), Quoted(T_high)),
                      TypedItemText(Quoted(<<115, 116, 121, 108, 101>>), Quoted(<<117, 114, 103, 101, 110, 116>>))>>), <<>>),
      \* scores "hi" and {}; type null and severity 7
      AnalysisText(ScoresText(Quoted(<<104, 105>>), ObjectText(<<>>)),
          ArrayText(<<TypedItemText(NullText, NumberText(7))>>), <<>>),
      \* scores null and "7"; metrics without scores
      AnalysisText(ScoresText(NullText, Quoted(<<55>>)), ArrayText(<<>>), <<>>),
      AnalysisText(ObjectText(<<>>), ArrayText(<<>>), <<>>),
      \* "no", " ", "OK" and ""
      <<110, 111>>, <<32>>, <<79, 75>>, <<>> }

\* the bodies of responses with an error status: {"error":{"message":"quota"}},
\* {"error":{"message":""}}, {"error":"denied"}, {}, null and "Bad Gateway"
ErrorBody(errorText) == ObjectText(<<Member(K_error, errorText)>>)
QuotaText == <<113, 117, 111, 116, 97>>
ErrorResponses ==
    { HttpStatus(500),
      HttpResponse(429, ErrorBody(ObjectText(<<Member(K_message, Quoted(QuotaText))>>))),
      HttpResponse(400, ErrorBody(ObjectText(<<Member(K_message, Quoted(<<>>))>>))),
      HttpResponse(401, ErrorBody(Quoted(<<100, 101, 110, 105, 101, 100>>))),
      HttpResponse(404, ObjectText(<<>>)),
      HttpResponse(503, NullText),
      HttpResponse(502, <<66, 97, 100, 32, 71, 97, 116, 101, 119, 97, 121>>) }

\* what a fetch settles to
FetchOutcomes ==
    {FetchFailed, BodyNoChoices, BodyEmptyChoices, BodyNoMessage,
     Body(Undefined), Body(Num(5))}
        \cup ErrorResponses
        \cup {Body(Chars(text)) : text \in ResponseTexts}

\* the configurations: each string empty or not
ProviderConfigs ==
    [enabled : BOOLEAN, apiKey : {"", "sk"}, baseUrl : {"", "https://api"},
     model : {"", "gpt"}]
\* the configurations updateConfig is called with: a complete one, and the
\* same one disabled
NewConfigs == {c \in ProviderConfigs : c.apiKey # "" /\ c.baseUrl # "" /\ c.model # ""}
\* the contents passed to analyzeContent: white space only, and "Aa"
ProviderContents == {1, 2}

\* isConfigured() that does not look at config.enabled
AIService_isConfiguredIgnoresEnabled(c) ==
    c.apiKey # "" /\ c.baseUrl # "" /\ c.model # ""
\* AIService.isConfigured()
AIService_isConfigured(c) ==
    c.enabled /\ c.apiKey # "" /\ c.baseUrl # "" /\ c.model # ""

\* analyzeContent without the test of line 41
analyzeContentEntryNoBlankTest(c, content) ==
    IF ~AIService_isConfigured(c) THEN "configuration" ELSE "call"
\* analyzeContent, lines 37-43: which error it throws before any request, or
\* "call" when it goes on to makeAPICall
analyzeContentEntry(c, content) ==
    IF ~AIService_isConfigured(c) THEN "configuration"
    ELSE IF Trim(content) = <<>> THEN "validation"
    ELSE "call"

\* response.ok
ResponseOk(status) == status \in 200..299

\* lines 194-199: errorData.error?.message of the parsed body, undefined when
\* the body is no JSON or reading it throws
ErrorDataMessage(errorData) ==
    IF ~errorData.ok \/ errorData.v.t = "null" THEN Undefined
    ELSE IF Get(errorData.v, K_error).t \in {"undefined", "null"} THEN Undefined
    ELSE Get(Get(errorData.v, K_error), K_message)
\* lines 192 and 196: the message of the body, converted to a string, or
\* the message made from the status (without the status text of the server)
ErrorMessageOf(status, message) ==
    IF ~Truthy(message)
    THEN [prefix |-> "", text |-> "API request failed: ", quoted |-> DigitsOf(status)]
    ELSE IF message.t = "text" THEN [prefix |-> "", text |-> "", quoted |-> message.s]
    ELSE [prefix |-> "", text |-> "String(message)", quoted |-> <<>>]
\* makeAPICall from the settling of its fetch with r (lines 190-204): what
\* it returns or throws; status.toString() writes the decimal digits
makeAPICallSettled(r) ==
    CASE r.t = "failed" -> TypeError
      [] r.t = "status" /\ ~ResponseOk(r.status) ->
            Value({AIServiceError(ErrorMessageOf(r.status, ErrorDataMessage(errorData)),
                                  Chars(DigitsOf(r.status))) :
                       errorData \in {JSONParse(r.body)}})
      [] OTHER -> Returned(r)

\* the catch block of lines 50-57 wrapping every error
WrapAnalyzeError(error) ==
    AIServiceError(Prefixed("Failed to analyze content: ", error.message), Undefined)
\* the catch block of lines 50-57: an AIServiceError is thrown on, any other
\* error is wrapped
RethrowAnalyzeError(error) ==
    IF error.error = "AIServiceError" THEN error ELSE WrapAnalyzeError(error)

\* analyzeContent from the settling of its fetch with r (lines 45-57)
AIService_analyzeContentSettled(r, content, postId, t) ==
    Value({IF ~response.threw
           THEN Value({IF result.threw THEN RethrowAnalyzeError(result) ELSE result :
                   result \in {AIService_parseAnalysisResponse(r, content, postId, t)}})
           ELSE RethrowAnalyzeError(response) :
              response \in {makeAPICallSettled(r)}})

\* text.toLowerCase() and text.includes(part)
ToLowerCase(s) == [i \in DOMAIN s |-> IF s[i] \in 65..90 THEN s[i] + 32 ELSE s[i]]
Includes(s, part) ==
    \E i \in 1..(Len(s) - Len(part) + 1) : SubSeq(s, i, i + Len(part) - 1) = part

\* testConnection whose catch block throws the error on
testConnectionSettledPropagates(r) ==
    IF r.t # "body" THEN Threw("api")
    ELSE IF extractTextFromResponse(r).threw THEN Threw("format")
    ELSE IF extractTextFromResponse(r).data.t # "text" THEN Threw("type")
    ELSE Returned(Bool(Includes(ToLowerCase(extractTextFromResponse(r).data.s),
                                <<111, 107>>)))
\* testConnection from the settling of its fetch with r (lines 95-102): every
\* error, a text without toLowerCase included, is caught and gives false
testConnectionSettled(r) ==
    IF r.t # "body" THEN Returned(Bool(FALSE))
    ELSE IF extractTextFromResponse(r).threw THEN Returned(Bool(FALSE))
    ELSE IF extractTextFromResponse(r).data.t # "text" THEN Returned(Bool(FALSE))
    ELSE Returned(Bool(Includes(ToLowerCase(extractTextFromResponse(r).data.s),
                                <<111, 107>>)))

\* what analyzeContent and testConnection make of each response, computed
\* once for every response and content; the timestamp is set when the call ends
AnalysisOutcomes ==
    [r \in FetchOutcomes |-> [i \in ProviderContents |->
        AIService_analyzeContentSettled(r, Contents[i], "p1", 0)]]
ConnectionOutcomes == [r \in FetchOutcomes |-> testConnectionSettled(r)]
AnalysisOutcomeAt(r, i, t) ==
    IF AnalysisOutcomes[r][i].threw THEN AnalysisOutcomes[r][i]
    ELSE Returned([AnalysisOutcomes[r][i].data EXCEPT !.timestamp = t])

\* makeAPICall(messages, maxTokens) up to its fetch: the request is sent at once
makeAPICall(op, content, maxTokens) ==
    /\ Len(httpLog) < MaxProviderCalls
    /\ httpLog' = Append(httpLog, [op |-> op, content |-> content,
                                   maxTokens |-> maxTokens, at |-> now])
    /\ pending' = pending \cup {Len(httpLog) + 1}
    /\ UNCHANGED outcome

\* what a call that has ended left: its result, and the request and the
\* response it had (0 and None for a call that sent nothing)
Outcome(op, content, request, response, result) ==
    [op |-> op, content |-> content, request |-> request,
     response |-> response, result |-> result]

\* updateConfig(config)
AIService_updateConfig(c) ==
    /\ config # None
    /\ config' = c
    /\ UNCHANGED <<httpLog, pending, outcome>>
    /\ UNCHANGED <<coreVars, pureVars>>

\* analyzeContent(content, postId) up to its first await
AIService_analyzeContent(i) ==
    /\ config # None
    /\ IF analyzeContentEntry(config, Contents[i]) = "call"
       THEN makeAPICall("analyzeContent", i, 2000)
       ELSE /\ outcome' = Outcome("analyzeContent", i, 0, None,
                                  Threw(analyzeContentEntry(config, Contents[i])))
            /\ UNCHANGED <<httpLog, pending>>
    /\ UNCHANGED <<config, coreVars, pureVars>>

\* testConnection() up to its first await
testConnection ==
    /\ config # None
    /\ IF AIService_isConfigured(config)
       THEN makeAPICall("testConnection", 0, 10)
       ELSE /\ outcome' = Outcome("testConnection", 0, 0, None, Returned(Bool(FALSE)))
            /\ UNCHANGED <<httpLog, pending>>
    /\ UNCHANGED <<config, coreVars, pureVars>>

\* the fetch of request k settles with r and the call that awaits it ends
FetchSettles(k, r) ==
    /\ k \in pending
    /\ pending' = pending \ {k}
    /\ outcome' = Outcome(httpLog[k].op, httpLog[k].content, k, r,
            IF httpLog[k].op = "testConnection" THEN ConnectionOutcomes[r]
            ELSE AnalysisOutcomeAt(r, httpLog[k].content, now))
    /\ UNCHANGED <<config, httpLog, coreVars, pureVars>>

InitProvider ==
    /\ CoreInit
    /\ apiKey = ""
    /\ config \in ProviderConfigs
    /\ httpLog = <<>>
    /\ pending = {}
    /\ outcome = None
    /\ PureIdle

NextProvider ==
    \/ \E c \in NewConfigs : AIService_updateConfig(c)
    \/ \E i \in ProviderContents : AIService_analyzeContent(i)
    \/ testConnection
    \/ \E k \in DOMAIN httpLog, r \in FetchOutcomes : FetchSettles(k, r)
SpecProvider == InitProvider /\ [][NextProvider]_vars

(***************************************************************************)
(* The repairer applied to JSON object texts and to their truncations.     *)
(***************************************************************************)
RepairDocuments ==
    << \* {"k":"}","m":<NL>{"b":1,"c":"te"}}
       <<123, 34, 107, 34, 58, 34, 125, 34, 44, 34, 109, 34, 58, 10,
         123, 34, 98, 34, 58, 49, 44, 34, 99, 34, 58, 34, 116, 101, 34, 125, 125>>,
       \* {"a":"{, x"}
       <<123, 34, 97, 34, 58, 34, 123, 44, 32, 120, 34, 125>>,
       \* {"m":{"r":7},"s":[{"t":"x"},1],"n":"]\""}
       <<123, 34, 109, 34, 58, 123, 34, 114, 34, 58, 55, 125, 44, 34, 115, 34, 58,
         91, 123, 34, 116, 34, 58, 34, 120, 34, 125, 44, 49, 93, 44, 34, 110, 34,
         58, 34, 93, 92, 34, 34, 125>>,
       \* {"a" : 1, "b" : [1, 2]}
       <<123, 34, 97, 34, 32, 58, 32, 49, 44, 32, 34, 98, 34, 32, 58, 32, 91, 49,
         44, 32, 50, 93, 125>> >>
\* a document cut after its first n characters; n = Len(document) leaves it whole
Truncations ==
    UNION {{[t |-> "truncation", document |-> RepairDocuments[d],
             s |-> SubSeq(RepairDocuments[d], 1, n)] :
               n \in 0..Len(RepairDocuments[d])} : d \in DOMAIN RepairDocuments}

InitRepair ==
    /\ CoreInit
    /\ ProviderIdle
    /\ input \in Truncations
    /\ output = None

\* a call of attemptJSONRepair on the text
Repair ==
    /\ input.t = "truncation"
    /\ output = None
    /\ output' = [op |-> "repair", v |-> attemptJSONRepair(input.s)]
    /\ UNCHANGED <<coreVars, providerVars, input>>

\* the text handed to lines 364-400 of parseAnalysisResponse
ParseOrRepair ==
    /\ input.t = "truncation"
    /\ output = None
    /\ output' = [op |-> "parse"] @@ parseAnalysisData(input.s)
    /\ UNCHANGED <<coreVars, providerVars, input>>

NextRepair == Repair \/ ParseOrRepair
SpecRepair == InitRepair /\ [][NextRepair]_vars

(***************************************************************************)
(* The heuristic analyzer applied to texts of up to MaxWords words.        *)
(***************************************************************************)
\* the separator after word i of a text whose sentences have perSentence words
\* and whose paragraphs have perParagraph sentences
ProseGap(i, perSentence, perParagraph) ==
    IF i % perSentence # 0 THEN <<32>>
    ELSE IF (i \div perSentence) % perParagraph = 0 THEN <<46, NL, NL>>
    ELSE <<46, 32>>
\* a text of `words` one-letter words
RECURSIVE Prose(_, _, _)
Prose(words, perSentence, perParagraph) ==
    IF words = 0 THEN <<>>
    ELSE Prose(words - 1, perSentence, perParagraph)
            \o <<97>> \o ProseGap(words, perSentence, perParagraph)
\* the texts given to the heuristic analyzer
HeuristicContents ==
    {Contents[1], <<46>>}
    \cup {Prose(w, ps, pp) : w \in 1..MaxWords, ps \in {1, MaxWords + 1},
                             pp \in {1, 6, 12}}

InitHeuristic ==
    /\ CoreInit /\ apiKey = "" /\ ProviderIdle
    /\ input \in {[t |-> "content", s |-> s] : s \in HeuristicContents}
    /\ output = None

\* analysisProcessor.createBasicAnalysis(content)
HeuristicAnalyze ==
    /\ input.t = "content" /\ output = None
    /\ output' = createBasicAnalysis(input.s, "", now)
    /\ UNCHANGED <<coreVars, providerVars, input>>

NextHeuristic == HeuristicAnalyze

SpecHeuristic == InitHeuristic /\ [][NextHeuristic]_vars

(***************************************************************************)
(* AnalysisProcessor.analyzeTone applied to texts of up to MaxToneWords    *)
(* words.                                                                  *)
(***************************************************************************)
MaxToneWords == 4

\* therefore, however, furthermore, consequently, nevertheless
formalIndicators ==
    << <<116, 104, 101, 114, 101, 102, 111, 114, 101>>,
       <<104, 111, 119, 101, 118, 101, 114>>,
       <<102, 117, 114, 116, 104, 101, 114, 109, 111, 114, 101>>,
       <<99, 111, 110, 115, 101, 113, 117, 101, 110, 116, 108, 121>>,
       <<110, 101, 118, 101, 114, 116, 104, 101, 108, 101, 115, 115>> >>
\* just, really, pretty, kinda, gonna, wanna
casualIndicators ==
    << <<106, 117, 115, 116>>,
       <<114, 101, 97, 108, 108, 121>>,
       <<112, 114, 101, 116, 116, 121>>,
       <<107, 105, 110, 100, 97>>,
       <<103, 111, 110, 110, 97>>,
       <<119, 97, 110, 110, 97>> >>
\* implement, configure, optimize, analyze, framework
technicalIndicators ==
    << <<105, 109, 112, 108, 101, 109, 101, 110, 116>>,
       <<99, 111, 110, 102, 105, 103, 117, 114, 101>>,
       <<111, 112, 116, 105, 109, 105, 122, 101>>,
       <<97, 110, 97, 108, 121, 122, 101>>,
       <<102, 114, 97, 109, 101, 119, 111, 114, 107>> >>
\* amazing, terrible, love, hate, excited, frustrated
emotionalIndicators ==
    << <<97, 109, 97, 122, 105, 110, 103>>,
       <<116, 101, 114, 114, 105, 98, 108, 101>>,
       <<108, 111, 118, 101>>,
       <<104, 97, 116, 101>>,
       <<101, 120, 99, 105, 116, 101, 100>>,
       <<102, 114, 117, 115, 116, 114, 97, 116, 101, 100>> >>

\* \w of a regular expression
IsWordChar(c) == c \in (48..57) \cup (65..90) \cup (97..122) \cup {95}
\* /\bword\b/ matches s at position i
MatchesAt(s, word, i) ==
    /\ SubSeq(s, i, i + Len(word) - 1) = word
    /\ i = 1 \/ ~IsWordChar(s[i - 1])
    /\ i + Len(word) > Len(s) \/ ~IsWordChar(s[i + Len(word)])
\* (s.match(new RegExp(`\\b${word}\\b`, 'g')) || []).length
MatchCount(s, word) ==
    Cardinality({i \in 1..(Len(s) - Len(word) + 1) : MatchesAt(s, word, i)})
\* indicators.reduce((count, word) => count + matches of word, 0)
RECURSIVE IndicatorCount(_, _)
IndicatorCount(s, indicators) ==
    IF indicators = <<>> THEN 0
    ELSE MatchCount(s, Head(indicators)) + IndicatorCount(s, Tail(indicators))

\* lines 202-220: the four counts of the lower-cased content
ToneCounts(content) ==
    [formal |-> IndicatorCount(ToLowerCase(content), formalIndicators),
     casual |-> IndicatorCount(ToLowerCase(content), casualIndicators),
     technical |-> IndicatorCount(ToLowerCase(content), technicalIndicators),
     emotional |-> IndicatorCount(ToLowerCase(content), emotionalIndicators)]
\* lines 222-232: the tone for the four counts
ToneOf(c) ==
    IF c.technical > c.formal /\ c.technical > c.casual THEN "Technical"
    ELSE IF c.formal > c.casual /\ c.formal > c.emotional THEN "Formal"
    ELSE IF c.casual > c.formal THEN "Casual"
    ELSE IF c.emotional > 2 THEN "Emotional"
    ELSE "Neutral"
\* analyzeTone(content)
analyzeTone(content) == ToneOf(ToneCounts(content))

\* the words of the texts: implement, however, just, Love and lovely
ToneWords ==
    {<<105, 109, 112, 108, 101, 109, 101, 110, 116>>, <<104, 111, 119, 101, 118, 101, 114>>, <<106, 117, 115, 116>>, <<76, 111, 118, 101>>, <<108, 111, 118, 101, 108, 121>>}
\* the texts of up to n of these words, one space between two words
RECURSIVE ToneTexts(_)
ToneTexts(n) ==
    IF n = 0 THEN {<<>>}
    ELSE ToneTexts(n - 1) \cup
         {IF t = <<>> THEN w ELSE t \o <<32>> \o w : t \in ToneTexts(n - 1), w \in ToneWords}

InitTone ==
    /\ CoreInit /\ apiKey = "" /\ ProviderIdle
    /\ input \in {[t |-> "content", s |-> s] : s \in ToneTexts(MaxToneWords)}
    /\ output = None

\* analysisProcessor.analyzeTone(content), with the counts it made
AnalyzeTone ==
    /\ input.t = "content" /\ output = None
    /\ output' = [op |-> "tone", counts |-> ToneCounts(input.s),
                  tone |-> analyzeTone(input.s)]
    /\ UNCHANGED <<coreVars, providerVars, input>>

NextTone == AnalyzeTone

SpecTone == InitTone /\ [][NextTone]_vars

(***************************************************************************)
(* Properties of the orchestrator (specification Spec).                    *)
(***************************************************************************)
\* a field of a result is not missing
Present(v) == v.t \notin {"undefined", "null"}

\* r has every field of an AnalysisResult, for the caller's postId
WellFormed(r, postId) ==
    /\ r.t = "analysis"
    /\ r.postId = postId
    /\ r.timestamp \in 0..now
    /\ Present(r.readabilityScore) /\ Present(r.clarityScore)
    /\ Present(r.suggestions) /\ Present(r.ambiguousPhrases)

\* an orchestrator call returns or throws in this step
ReturnsNow == lastReturn' # lastReturn
\* the cache key of the call that finished last
ReturnKey == ContentKey[lastReturn.content]

\* C1: a call with blank content throws and yields no result, every other
\* finished call returned a well-formed result and did not throw, ...
C1_EndsWithResult ==
    lastReturn # None =>
        IF IsBlank(Contents[lastReturn.content])
        THEN lastReturn.threw /\ lastReturn.result = None
        ELSE ~lastReturn.threw /\ WellFormed(lastReturn.result, lastReturn.postId)
\* ... whatever the provider's request settles to, the call awaiting it ends in
\* that step, and a call with blank content touches neither the cache nor the
\* throttler.
C1_Step ==
    /\ \A t \in DOMAIN tasks :
          (tasks[t].frame # None /\ tasks'[t].state = "settled") =>
               /\ lastReturn'.call = tasks[t].frame.call
               /\ ~lastReturn'.threw
    /\ (ReturnsNow /\ lastReturn'.threw) => UNCHANGED <<cache, throttleVars>>
C1_AlwaysReturns == []C1_EndsWithResult /\ [][C1_Step]_vars
\* a call whose provider request failed has returned
C1_Witness ==
    /\ lastReturn # None
    /\ lastReturn.path = "fallback" /\ lastReturn.error = "service"
    /\ \E t \in DOMAIN tasks : tasks[t].promise = "rejected"

C3_ConfigErrorPropagates ==
    (lastReturn # None /\ lastReturn.error = "config") =>
        lastReturn.threw /\ lastReturn.result = None
\* C3 as amended: a call that met a configuration error returned the heuristic
\* fallback result; it queued no request and did not write the cache.
C3_ConfigErrorFallsBack ==
    /\ []((lastReturn # None /\ lastReturn.error = "config") =>
            /\ ~lastReturn.threw
            /\ lastReturn.path = "fallback"
            /\ lastReturn.result.origin = "heuristic"
            /\ WellFormed(lastReturn.result, lastReturn.postId))
    /\ [][(ReturnsNow /\ lastReturn'.error = "config") =>
            UNCHANGED <<cache, throttleVars>>]_vars
\* a call made while the service was not configured has returned
C3_Witness ==
    /\ lastReturn # None
    /\ lastReturn.error = "config" /\ ~lastReturn.threw
    /\ ~isConfigured

\* the cache holds an entry under key k that is younger than the TTL at time t
Unexpired(cch, k, t) == k \in DOMAIN cch /\ t - cch[k].timestamp < cacheTimeout

\* C8: a get returns the entry put under a key exactly while the entry is
\* younger than the TTL, and nothing from the TTL on, ...
C8_GetWithinTTL ==
    \A k \in DOMAIN cache :
        CacheGet(cache, k, now) =
            IF now - cache[k].timestamp < cacheTimeout THEN cache[k] ELSE None
\* ... a get right after a put returns the result that was put, and an entry
\* younger than the TTL stays as it was put, whatever step is taken (a sweep
\* included), until a later put replaces it.
C8_Step ==
    /\ (ReturnsNow /\ lastReturn'.path = "provider") =>
          CacheGet(cache', ContentKey[lastReturn'.content], now') = lastReturn'.result
    /\ \A k \in DOMAIN cache :
          Unexpired(cache, k, now') =>
              /\ k \in DOMAIN cache'
              /\ \/ cache'[k] = cache[k]
                 \/ /\ ReturnsNow /\ lastReturn'.path = "provider"
                    /\ ContentKey[lastReturn'.content] = k
                    /\ cache'[k] = lastReturn'.result
C8_GetAfterPut == []C8_GetWithinTTL /\ [][C8_Step]_vars
\* an entry has reached the TTL, a sweep has run and has left it in the map,
\* and a get returns nothing for it
C8_Witness ==
    /\ nextSweep > requestInterval + sweepInterval
    /\ \E k \in DOMAIN cache :
          /\ now - cache[k].timestamp >= cacheTimeout
          /\ CacheGet(cache, k, now) = None

\* C9: a call made while the cache holds an unexpired entry for its content
\* returns that entry (with the caller's postId) in the same step and leaves
\* the throttler and the cache alone; a call queues a provider request only
\* when the cache holds no unexpired entry for its content.
C9_HitSkipsProvider ==
    [][/\ (/\ nCalls' = nCalls + 1 /\ ReturnsNow
           /\ ~IsBlank(Contents[lastReturn'.content])
           /\ Unexpired(cache, ContentKey[lastReturn'.content], now)) =>
              /\ lastReturn'.path = "hit"
              /\ lastReturn'.result =
                    [cache[ContentKey[lastReturn'.content]]
                        EXCEPT !.postId = lastReturn'.postId]
              /\ UNCHANGED <<cache, throttleVars>>
       /\ \A t \in DOMAIN tasks' \ DOMAIN tasks :
              tasks'[t].frame # None =>
                 ~Unexpired(cache, ContentKey[tasks'[t].frame.content], now)]_vars
\* the second call was served from the cache: one request only was ever sent
C9_Witness ==
    /\ lastReturn # None /\ lastReturn.path = "hit"
    /\ lastReturn.call = 2 /\ Len(dispatchLog) = 1

\* a score is an integer from 1 to 10
IsScore(v) == v.t = "number" /\ v.n \in 1..10

\* C10: the scores of every result a call returns are integers from 1 to 10.
C10_ScoresInRange ==
    (lastReturn # None /\ lastReturn.result # None) =>
        /\ IsScore(lastReturn.result.readabilityScore)
        /\ IsScore(lastReturn.result.clarityScore)

(***************************************************************************)
(* Properties of the throttler (specifications SpecThrottle and            *)
(* SpecThrottleFair).                                                      *)
(***************************************************************************)
\* task t has been dispatched
Dispatched(t) == \E i \in DOMAIN dispatchLog : dispatchLog[i].task = t
\* the position of task t's dispatch among the dispatches
DispatchIndex(t) == CHOOSE i \in DOMAIN dispatchLog : dispatchLog[i].task = t

\* C4: tasks are numbered in the order they were queued; of two tasks the one
\* queued later is dispatched only after the one queued first, and no task is
\* dispatched twice.
C4_FifoDispatch ==
    /\ \A a, b \in DOMAIN tasks :
          (a < b /\ Dispatched(b)) =>
              Dispatched(a) /\ DispatchIndex(a) < DispatchIndex(b)
    /\ \A i, j \in DOMAIN dispatchLog :
          dispatchLog[i].task = dispatchLog[j].task => i = j
\* two tasks have been dispatched and a third, queued behind them, waits for
\* the timer
C4_Witness ==
    /\ Len(dispatchLog) >= 2
    /\ Len(rateLimitQueue) >= 1
    /\ loop.pc = "timer"

\* C5: consecutive dispatches start at least requestInterval apart, so N
\* dispatches span at least (N-1) x requestInterval.
C5_DispatchSpacing ==
    /\ \A i \in DOMAIN dispatchLog :
          i > 1 => dispatchLog[i].at - dispatchLog[i - 1].at >= requestInterval
    /\ Len(dispatchLog) >= 1 =>
          dispatchLog[Len(dispatchLog)].at - dispatchLog[1].at
              >= (Len(dispatchLog) - 1) * requestInterval
\* three dispatches, each exactly one interval after the one before
C5_Witness ==
    /\ Len(dispatchLog) >= 3
    /\ dispatchLog[3].at - dispatchLog[1].at = 2 * requestInterval

\* C6: a promise is settled only in the step in which its own request
\* settles, and a rejected promise carries the error of its own request; the
\* step in which a request fails leaves the queue as it is and, if a request
\* is queued, the loop waiting for its timer.
C6_Step ==
    /\ \A t \in DOMAIN tasks :
          tasks'[t].promise # tasks[t].promise =>
              /\ loop.pc = "task" /\ loop.task = t
              /\ tasks[t].state = "running"
              /\ tasks'[t].promise = "rejected" => tasks'[t].error = t
    /\ (\E t \in DOMAIN tasks :
            tasks[t].promise = "pending" /\ tasks'[t].promise = "rejected") =>
          /\ rateLimitQueue' = rateLimitQueue
          /\ rateLimitQueue # <<>> => (isProcessingQueue' /\ loop'.pc = "timer")
\* ... and every request that was queued behind a failed one when the loop
\* has gone idle has been dispatched.
C6_NoneLeftBehind ==
    (loop.pc = "idle") =>
        /\ rateLimitQueue = <<>>
        /\ \A t \in DOMAIN tasks : Dispatched(t)
C6_FailureIsLocal == []C6_NoneLeftBehind /\ [][C6_Step]_vars
\* a request failed and a request queued behind it was dispatched and resolved
C6_Witness ==
    \E a, b \in DOMAIN tasks :
        /\ a < b
        /\ tasks[a].promise = "rejected"
        /\ tasks[b].promise = "resolved"

\* C7: every queued task is eventually dispatched and its promise settled,
\* and until it is dispatched it stays in the queue, once.
C7_QueuedOnce ==
    \A t \in DOMAIN tasks :
        tasks[t].state = "queued" =>
            Cardinality({i \in DOMAIN rateLimitQueue : rateLimitQueue[i] = t}) = 1
C7_EventuallySettled ==
    /\ []C7_QueuedOnce
    /\ \A t \in 1..MaxChats :
          (t \in DOMAIN tasks) ~>
              (/\ t \in DOMAIN tasks
               /\ Dispatched(t)
               /\ tasks[t].state = "settled"
               /\ tasks[t].promise \in {"resolved", "rejected"})
\* every task the bound allows was queued, and all are settled
C7_Witness ==
    /\ Len(tasks) = MaxChats
    /\ \A t \in DOMAIN tasks : tasks[t].state = "settled"
    /\ loop.pc = "idle" /\ ~isProcessingQueue

\* C19: the flag isProcessingQueue is set exactly while the drain loop is
\* active, and at most one request is running; ...
C19_FlagTracksLoop ==
    /\ isProcessingQueue = (loop.pc # "idle")
    /\ Cardinality({t \in DOMAIN tasks : tasks[t].state = "running"}) <= 1
    /\ loop.pc = "task" => tasks[loop.task].state = "running"
\* ... a request queued while the loop runs a request or waits for its timer
\* leaves the loop as it is and starts nothing; a loop starts only when none
\* is active, and a loop ends only with the queue empty and the flag cleared.
C19_Step ==
    /\ (Len(tasks') > Len(tasks) /\ loop.pc # "idle") =>
          /\ loop' = loop
          /\ dispatchLog' = dispatchLog
          /\ isProcessingQueue'
          /\ rateLimitQueue' = Append(rateLimitQueue, Len(tasks'))
    /\ (loop.pc = "idle" /\ loop'.pc # "idle") =>
          /\ ~isProcessingQueue /\ rateLimitQueue = <<>>
          /\ Len(tasks') > Len(tasks)
    /\ (loop.pc # "idle" /\ loop'.pc = "idle") =>
          /\ rateLimitQueue' = <<>> /\ ~isProcessingQueue'
C19_SingleDrainLoop == []C19_FlagTracksLoop /\ [][C19_Step]_vars
\* the loop has run a request and waits for its timer with two requests that
\* were queued while it was active
C19_Witness ==
    /\ Len(rateLimitQueue) >= 2
    /\ loop.pc = "timer"
    /\ Len(dispatchLog) >= 1

(***************************************************************************)
(* Properties of the heuristic analyzer (specification SpecHeuristic).     *)
(***************************************************************************)
\* C15: for every non-empty text the heuristic analyzer can be applied and
\* returns a result with both scores from 1 to 10 and with suggestions and
\* ambiguousPhrases present.
C15_HeuristicTotal ==
    /\ (input # None /\ output = None) => ENABLED HeuristicAnalyze
    /\ output # None =>
          /\ Len(input.s) > 0
          /\ output.t = "analysis"
          /\ IsScore(output.readabilityScore)
          /\ IsScore(output.clarityScore)
          /\ Present(output.suggestions)
          /\ Present(output.ambiguousPhrases)
\* a text whose one sentence has more than 30 words got all three penalties
C15_Witness ==
    /\ output # None
    /\ WordCount(input.s) > 30
    /\ output.readabilityScore = Num(4)

(***************************************************************************)
(* Properties of the repairer (specification SpecRepair)                   *)
(***************************************************************************)
\* the input is a document cut strictly before its final closing brace
IsTruncated(in) == Len(in.s) < LastIndexOf(in.document, RBrace)
\* the names of the top-level members of the object text names
TopLevelKeys(text) == {m.k : m \in {JSONParse(text).v.members[k] : k \in DOMAIN JSONParse(text).v.members}}

\* C17: for a valid JSON object cut strictly before its final closing brace
\* the repairer returns null, or a text that parses to an object whose
\* top-level keys are top-level keys of the object that was cut.
C17_RecoversOrFails ==
    (output # None /\ output.op = "repair" /\ IsTruncated(input)) =>
        \/ output.v = JsNull
        \/ /\ JSONParse(output.v.s).ok
           /\ JSONParse(output.v.s).v.t = "object"
           /\ TopLevelKeys(output.v.s) \subseteq TopLevelKeys(input.document)

AllPresent(c) == c.enabled /\ c.apiKey # "" /\ c.baseUrl # "" /\ c.model # ""

\* C12: a call of analyzeContent on a configuration with a part missing ends
\* at once with the configuration error and sends no request; on a
\* configuration with every part present it does not end with that error.
C12_Step ==
    \A i \in ProviderContents : AIService_analyzeContent(i) =>
        IF AllPresent(config)
        THEN httpLog' # httpLog \/ outcome'.result.error # "configuration"
        ELSE /\ outcome' = Outcome("analyzeContent", i, 0, None, Threw("configuration"))
             /\ UNCHANGED <<httpLog, pending>>
C12_ConfiguredIffAllPresent == [][C12_Step]_vars
\* a disabled configuration with key, URL and model: the call failed with the
\* configuration error and nothing was ever sent
C12_Witness ==
    /\ ~config.enabled /\ config.apiKey # "" /\ config.baseUrl # "" /\ config.model # ""
    /\ outcome # None /\ outcome.op = "analyzeContent"
    /\ outcome.result = Threw("configuration")
    /\ httpLog = <<>>

\* C13 as stated: a call of analyzeContent with blank content ends with the
\* validation error, and nothing is queued or sent for it.
C13_BlankStep ==
    \A i \in ProviderContents : (AIService_analyzeContent(i) /\ IsBlank(Contents[i])) =>
        /\ UNCHANGED <<httpLog, pending, rateLimitQueue>>
        /\ outcome'.request = 0
        /\ outcome'.result = Threw("validation")
C13_BlankIsValidationError == [][C13_BlankStep]_vars
\* C13 amended: with blank content the call ends with the validation error
\* when the service is configured and with the configuration error when it
\* is not, and in both cases nothing is queued or sent for it.
C13_AmendedStep ==
    \A i \in ProviderContents : (AIService_analyzeContent(i) /\ IsBlank(Contents[i])) =>
        /\ UNCHANGED <<httpLog, pending, rateLimitQueue>>
        /\ outcome'.request = 0
        /\ outcome'.result =
               Threw(IF AllPresent(config) THEN "validation" ELSE "configuration")
C13_BlankRejectedUnsent == [][C13_AmendedStep]_vars
C13_Witness ==
    /\ outcome # None /\ outcome.op = "analyzeContent"
    /\ IsBlank(Contents[outcome.content])
    /\ outcome.result = Threw("validation")
    /\ outcome.request = 0

\* C14: every request of analyzeContent is started by the drain loop of the
\* throttler, and two such requests are at least requestInterval apart.
C14_Spaced ==
    \A j, k \in DOMAIN httpLog :
        (j < k /\ httpLog[j].op = "analyzeContent" /\ httpLog[k].op = "analyzeContent")
            => httpLog[k].at - httpLog[j].at >= requestInterval
C14_Step ==
    (Len(httpLog') > Len(httpLog) /\ httpLog'[Len(httpLog')].op = "analyzeContent")
        => Len(dispatchLog') > Len(dispatchLog)
C14_ThroughThrottler == []C14_Spaced /\ [][C14_Step]_vars

\* the reply r holds the acknowledgement: a text with "ok" in it, in any case
Acknowledges(r) ==
    /\ r.t = "body" /\ r.choices = "content" /\ r.content.t = "text"
    /\ \E i \in 1..(Len(r.content.s) - 1) :
          r.content.s[i] \in {79, 111} /\ r.content.s[i + 1] \in {75, 107}

\* C16: testConnection ends with a boolean, never with an error; the boolean
\* is false without a configuration and for a failed request, a status
\* outside 2xx and a malformed body, and true only for a reply that holds the
\* acknowledgement.
C16_NeverThrows ==
    (outcome # None /\ outcome.op = "testConnection") =>
        /\ ~outcome.result.threw
        /\ outcome.result.data.t = "boolean"
        /\ outcome.request = 0 => ~outcome.result.data.b
        /\ outcome.result.data.b => Acknowledges(outcome.response)
C16_Witness ==
    /\ outcome # None /\ outcome.op = "testConnection"
    /\ outcome.response \in {FetchFailed, HttpStatus(500), BodyNoChoices, Body(Num(5))}
    /\ outcome.result = Returned(Bool(FALSE))

\* C11: in every result of analyzeContent every suggestion position and every
\* phrase position has 0 <= start <= end <= the length of the content.
InBounds(position, length) ==
    /\ position.start.t = "number" /\ position.end.t = "number"
    /\ 0 <= position.start.n /\ position.start.n <= position.end.n
    /\ position.end.n <= length
C11_PositionsInBounds ==
    (outcome # None /\ outcome.op = "analyzeContent" /\ ~outcome.result.threw) =>
        /\ \A k \in DOMAIN outcome.result.data.suggestions :
              InBounds(outcome.result.data.suggestions[k].position,
                       Len(Contents[outcome.content]))
        /\ \A k \in DOMAIN outcome.result.data.ambiguousPhrases :
              InBounds(outcome.result.data.ambiguousPhrases[k].position,
                       Len(Contents[outcome.content]))

\* the text of reply r is empty, or neither it nor its repair parses, or the
\* parsed value has no object as metrics or no array as suggestions
LacksStructure(text) ==
    \/ Trim(text) = <<>>
    \/ LET parsed == parseAnalysisData(JsonMatch(DropFences(Trim(text))))
       IN  \/ parsed.path = "none"
           \/ Get(parsed.v, K_metrics).t # "object"
           \/ Get(parsed.v, K_suggestions).t # "array"
\* C20: analyzeContent ends with an error and no result when the text of the
\* reply is empty, when both parses fail, when metrics is absent or no
\* object, and when suggestions is absent or no array.
C20_FailsWithoutStructure ==
    (/\ outcome # None /\ outcome.op = "analyzeContent"
     /\ outcome.response # None /\ outcome.response.t = "body"
     /\ \/ outcome.response.choices = "empty"
        \/ /\ outcome.response.choices = "content"
           /\ outcome.response.content.t = "text"
           /\ LacksStructure(outcome.response.content.s))
        => outcome.result.threw

(***************************************************************************)
(* Further properties of the configurable service (SpecProvider)           *)
(***************************************************************************)
\* an analyzeContent call has ended with a result
AnalysisReturned ==
    outcome # None /\ outcome.op = "analyzeContent" /\ ~outcome.result.threw

\* C21: every suggestion of a result has a type among clarity, tone,
\* structure and grammar and a severity among low, medium and high.
C21_TypesAndSeveritiesKnown ==
    AnalysisReturned =>
        \A k \in DOMAIN outcome.result.data.suggestions :
            LET s == outcome.result.data.suggestions[k]
            IN  /\ s.type.t = "text" /\ s.type.s \in SuggestionTypes
                /\ s.severity.t = "text" /\ s.severity.s \in SuggestionSeverities

\* the metrics the provider wrote in each reply that parses to an object
ProviderMetrics ==
    [r \in {x \in FetchOutcomes : x.t = "body" /\ x.content.t = "text"
                                  /\ Trim(x.content.s) # <<>>} |->
        Value({Get(parsed.v, K_metrics) :
            parsed \in {parseAnalysisData(JsonMatch(DropFences(Trim(r.content.s))))}})]
\* the score to report for what the provider wrote
ClampedOrFive(score) ==
    IF score.t = "number" THEN Num(Max(1, Min(10, score.n))) ELSE Num(5)
\* C22: in a result each score is 5 when the provider's metrics hold no
\* number for it, and otherwise that number brought into 1..10.
C22_ScoresClampedOrFive ==
    AnalysisReturned =>
        /\ outcome.result.data.readabilityScore =
              ClampedOrFive(Get(ProviderMetrics[outcome.response], K_readabilityScore))
        /\ outcome.result.data.clarityScore =
              ClampedOrFive(Get(ProviderMetrics[outcome.response], K_clarityScore))

\* an analyzeContent call has ended whose request got a response with an
\* error status
StatusAnswered ==
    /\ outcome # None /\ outcome.op = "analyzeContent"
    /\ outcome.response # None /\ outcome.response.t = "status"
\* the body is {"error":{"message":"<m>"}}
CarriesMessage(body, m) ==
    body = ObjectText(<<Member(K_error, ObjectText(<<Member(K_message, Quoted(m))>>))>>)
\* C25: a call whose request got a status outside 200-299 throws an
\* AIServiceError whose code is the status written in decimal digits and whose
\* message is the error.message of the body when the body has a non-empty
\* one, and the message made from the status otherwise.
C25_StatusErrorReachesCaller ==
    StatusAnswered =>
        /\ outcome.result.threw /\ outcome.result.error = "AIServiceError"
        /\ outcome.result.code.t = "text"
        /\ DigitsValue(outcome.result.code.s) = outcome.response.status
        /\ outcome.result.message.prefix = ""
        /\ IF CarriesMessage(outcome.response.body, QuotaText)
           THEN /\ outcome.result.message.text = ""
                /\ outcome.result.message.quoted = QuotaText
           ELSE /\ outcome.result.message.text = "API request failed: "
                /\ DigitsValue(outcome.result.message.quoted) = outcome.response.status
\* status 429 with a message in the body: the caller has both
C25_Witness ==
    /\ StatusAnswered
    /\ outcome.response.status = 429
    /\ outcome.result.code = Chars(<<52, 50, 57>>)
    /\ outcome.result.message.quoted = QuotaText

\* the body does not expose choices[0].message.content
LacksContent(r) ==
    r.choices \in {"missing", "empty", "noMessage"} \/ r.content.t = "undefined"
\* C26: a call whose response lacks choices[0].message.content throws an
\* error that is neither the error of an empty or blank content string nor
\* the error of a content string that is no JSON.
C26_ShapeErrorDistinct ==
    (/\ outcome # None /\ outcome.op = "analyzeContent"
     /\ outcome.response # None /\ outcome.response.t = "body"
     /\ LacksContent(outcome.response)) =>
        /\ outcome.result.threw
        /\ \A text \in {<<>>, <<32>>, <<110, 111>>} :
              outcome.result # AnalysisOutcomes[Body(Chars(text))][outcome.content]

(***************************************************************************)
(* Further properties of the cache (specification Spec)                    *)
(***************************************************************************)
\* C24: a sweep leaves exactly the entries a get at that time still reports,
\* those whose age is below the lifetime, and no other step removes an entry.
C24_Step ==
    /\ Sweep => cache' = [k \in {x \in DOMAIN cache : Unexpired(cache, x, now)} |-> cache[k]]
    /\ ~Sweep => DOMAIN cache \subseteq DOMAIN cache'
C24_SweepRemovesExpired == [][C24_Step]_vars

\* the result of a hit on entry: its copy with the caller's postId
HitOn(entry, postId) == [entry EXCEPT !.postId = postId]
\* C30: a call served from the cache returns the entry with the postId of
\* this call, the empty string when analyzeContent is given none, and leaves
\* the map as it is; the entry it returns is younger than the lifetime,
\* counted from the timestamp it was stored with.
C30_Step ==
    (ReturnsNow /\ lastReturn'.path = "hit") =>
        /\ \A i \in ContentIds, a \in PostIdArgs : analyzeContent(i, a) =>
              lastReturn'.result =
                  HitOn(cache[ContentKey[i]], IF a = Undefined THEN "" ELSE a.s)
        /\ \A i \in ContentIds, id \in PostIds : analyzePost(i, id) =>
              lastReturn'.result = HitOn(cache[ContentKey[i]], id)
        /\ cache' = cache
        /\ lastReturn'.result.timestamp = cache'[ContentKey[lastReturn'.content]].timestamp
        /\ now - lastReturn'.result.timestamp < cacheTimeout
C30_HitLeavesEntry == [][C30_Step]_vars
\* a call without postId was served from an entry stored for post p1, and
\* the entry still carries p1
C30_Witness ==
    /\ lastReturn # None /\ lastReturn.path = "hit"
    /\ lastReturn.result.postId = ""
    /\ cache[ReturnKey].postId = "p1"
    /\ cache[ReturnKey].timestamp < now

\* the requests of analyze calls that have not settled yet
InFlight(tks) == {t \in DOMAIN tks : tks[t].frame # None}
\* C29: a call that finds no unexpired entry queues a request of its own,
\* also while a request for the same cache key is in flight; a call ends
\* once, with the settling of its own request; and a call that ends on the
\* provider path leaves its result under its key, whatever was there, and
\* every other entry as it was.
C29_Step ==
    /\ (nCalls' = nCalls + 1 /\ ~ReturnsNow) =>
          \E t \in InFlight(tasks') \ DOMAIN tasks : tasks'[t].frame.call = nCalls'
    /\ (ReturnsNow /\ nCalls' = nCalls) =>
          \E t \in InFlight(tasks) \ InFlight(tasks') :
              tasks[t].frame.call = lastReturn'.call
    /\ (ReturnsNow /\ lastReturn'.path = "provider") =>
          /\ DOMAIN cache' = DOMAIN cache \cup {ContentKey[lastReturn'.content]}
          /\ \A k \in DOMAIN cache' :
                cache'[k] = IF k = ContentKey[lastReturn'.content]
                            THEN lastReturn'.result ELSE cache[k]
    /\ (cache' # cache /\ ~Sweep) => (ReturnsNow /\ lastReturn'.path = "provider")
C29_OverlapLastWriterWins == [][C29_Step]_vars
\* the first of two calls has ended on the provider path and its result is in
\* the cache, while the request of the second call, made for the same key
\* before, is still in flight
C29_Witness ==
    /\ lastReturn # None /\ lastReturn.call = 1 /\ lastReturn.path = "provider"
    /\ cache[ReturnKey] = lastReturn.result
    /\ \E t \in InFlight(tasks) :
          /\ tasks[t].frame.call = 2
          /\ ContentKey[tasks[t].frame.content] = ReturnKey

(***************************************************************************)
(* Further properties of the throttler (specification SpecThrottle)        *)
(***************************************************************************)
Running(tks) == {t \in DOMAIN tks : tks[t].state = "running"}

\* C27: no two requests are ever running at once; a request is dispatched
\* only when every request dispatched before it has settled, and at least
\* requestInterval after the last completion: lastRequestTime is written only
\* in the step in which a running request settles, and to the time of that step.
C27_Step ==
    /\ Len(dispatchLog') > Len(dispatchLog) =>
          /\ Len(dispatchLog') = Len(dispatchLog) + 1
          /\ Running(tasks) = {}
          /\ \A t \in DOMAIN tasks : Dispatched(t) => tasks[t].state = "settled"
          /\ Running(tasks') = {dispatchLog'[Len(dispatchLog')].task}
          /\ lastRequestTime' = lastRequestTime
          /\ Len(dispatchLog) > 0 => now' - lastRequestTime' >= requestInterval
    /\ (\E t \in Running(tasks) : tasks'[t].state = "settled") =>
          /\ lastRequestTime' = now'
          /\ Running(tasks') = {}
    /\ lastRequestTime' # lastRequestTime =>
          \E t \in Running(tasks) : tasks'[t].state = "settled"
C27_OneRequestAtATime ==
    /\ [](Cardinality(Running(tasks)) <= 1)
    /\ [][C27_Step]_vars

\* the first request took time to complete, and the second, queued meanwhile,
\* was dispatched one interval after that completion
C27_Witness ==
    /\ Len(dispatchLog) = 2
    /\ Running(tasks) = {2}
    /\ lastRequestTime > dispatchLog[1].at
    /\ dispatchLog[2].at = lastRequestTime + requestInterval

\* C28: whenever a request is queued the drain loop is active and the flag
\* isProcessingQueue is set, so the flag is clear only with the queue empty ...
C28_QueuedImpliesActive ==
    rateLimitQueue # <<>> => (isProcessingQueue /\ loop.pc \in {"timer", "task"})
\* ... a request that waited in the queue is taken by the loop that was
\* already waiting for its timer, and no step that leaves a request in the
\* queue ends the loop ...
C28_Step ==
    /\ \A t \in DOMAIN tasks :
          (tasks[t].state = "queued" /\ tasks'[t].state # "queued") =>
              /\ loop.pc = "timer" /\ isProcessingQueue
              /\ Head(rateLimitQueue) = t
              /\ loop'.pc = "task" /\ loop'.task = t
    /\ (isProcessingQueue /\ ~isProcessingQueue') =>
          (rateLimitQueue' = <<>> /\ Running(tasks') = {})
\* ... and a queue that holds a request is emptied again.
C28_NoLostWakeup ==
    /\ []C28_QueuedImpliesActive
    /\ [][C28_Step]_vars
    /\ (rateLimitQueue # <<>>) ~> (rateLimitQueue = <<>>)

\* a request is running and two more, queued while the loop was active, wait
C28_Witness ==
    /\ loop.pc = "task"
    /\ Len(rateLimitQueue) = 2
    /\ isProcessingQueue
    /\ now > dispatchLog[Len(dispatchLog)].at

(***************************************************************************)
(* The tone classification (specification SpecTone)                        *)
(***************************************************************************)
\* the counts of the sets other than `set`
OtherCounts(c, set) == {c[x] : x \in {"formal", "casual", "technical", "emotional"} \ {set}}
StrictlyHighest(c, set) == \A n \in OtherCounts(c, set) : c[set] > n
\* C23: the set whose count is strictly the highest of the four gives the
\* tone, the emotional set when its count is above 2.
C23_StrictlyHighestWins ==
    (output # None /\ output.op = "tone") =>
        /\ StrictlyHighest(output.counts, "technical") => output.tone = "Technical"
        /\ StrictlyHighest(output.counts, "formal") => output.tone = "Formal"
        /\ StrictlyHighest(output.counts, "casual") => output.tone = "Casual"
        /\ (StrictlyHighest(output.counts, "emotional") /\ output.counts.emotional > 2) =>
              output.tone = "Emotional"

=============================================================================
